---------------------------- MODULE Spec2Model ----------------------------
(***************************************************************************)
(* A model of jenkins_job_wrecker/job_handlers.py: the handlers that turn  *)
(* the nodes of a Jenkins config.xml tree into the ordered key/value       *)
(* model that is dumped as Jenkins Job Builder YAML.                       *)
(*                                                                         *)
(* Python values are tagged records, an ElementTree node is a record       *)
(* [tag, attrib, text, tail, children], and a call either returns a value  *)
(* (Ok) or raises an exception of a named type (Raise).                    *)
(***************************************************************************)
EXTENDS Integers, Sequences, FiniteSets, TLC

VARIABLES
    handler,    \* which handler the run is in
    top,        \* the node the handler was given
    idx,        \* index of the next child the handler's loop visits
    out,        \* the list the handler accumulates
    pc,         \* "loop" | "done" | "raised"
    exc,        \* type of the exception that escaped, "" when none
    heap,       \* objects by identity: the dicts of dict_merge, the elements
                \* and attribute dicts of a tree that a recursive handler walks
    base,       \* dict_merge's first argument
    overlay,    \* dict_merge's second argument
    result,     \* dict_merge's return value
    stack       \* the calls of a recursive handler in progress, innermost last

vars == <<handler, top, idx, out, pc, exc, heap, base, overlay, result, stack>>

----------------------------------------------------------------------------
(* Python values *)

PyNone == [t |-> "None"]
Str(s) == [t |-> "str", s |-> s]
Bool(b) == [t |-> "bool", b |-> b]
PyInt(i) == [t |-> "int", i |-> i]
List(xs) == [t |-> "list", items |-> xs]
\* a mapping: its entries <<key, value>> in insertion order, keys distinct
Dict(kvs) == [t |-> "dict", kv |-> kvs]

\* bool(v) for the values that are tested: None and '' are false
Truthy(v) == v.t = "str" /\ v.s # ""

HasKey(d, k) == \E j \in 1..Len(d.kv) : d.kv[j][1] = k
KeyPos(d, k) == CHOOSE j \in 1..Len(d.kv) : d.kv[j][1] = k
Get(d, k) == d.kv[KeyPos(d, k)][2]
\* d[k] = v: an existing key keeps its place, a new one goes last
Put(d, k, v) ==
    IF HasKey(d, k)
    THEN Dict([d.kv EXCEPT ![KeyPos(d, k)] = <<k, v>>])
    ELSE Dict(Append(d.kv, <<k, v>>))

Last(s) == s[Len(s)]

\* a call's outcome
Ok(v) == [ok |-> TRUE, val |-> v]
Raise(e) == [ok |-> FALSE, exc |-> e]
\* the statements after a call: Then on its value, Else on its exception
Either(r, Then(_), Else(_)) == IF r.ok THEN Then(r.val) ELSE Else(r.exc)
\* the statements after a call whose exception propagates
Bind(r, Then(_)) == IF r.ok THEN Then(r.val) ELSE r

\* "for x in seq: body", the body run on the accumulated locals; an exception
\* raised by the body ends the loop and propagates
Loop(Body(_, _), init, seq) ==
    LET f[i \in 0..Len(seq)] ==
            IF i = 0 THEN Ok(init)
            ELSE CHOOSE r \in {IF prev.ok THEN Body(prev.val, seq[i]) ELSE prev :
                                  prev \in {f[i-1]}} : TRUE
    IN f[Len(seq)]

----------------------------------------------------------------------------
(* ElementTree nodes *)

\* attrib is the attribute map as <<name, value>> pairs, sorted by name
Node(tag, attrib, text, tail, children) ==
    [tag |-> tag, attrib |-> attrib, text |-> text, tail |-> tail,
     children |-> children]

HasAttr(n, k) == \E j \in 1..Len(n.attrib) : n.attrib[j][1] = k
Attr(n, k) == n.attrib[CHOOSE j \in 1..Len(n.attrib) : n.attrib[j][1] = k][2]
HasChild(n, tag) == \E j \in 1..Len(n.children) : n.children[j].tag = tag
\* node.find(tag): the first child with that tag (None when there is none)
Find(n, tag) ==
    n.children[CHOOSE j \in 1..Len(n.children) :
        /\ n.children[j].tag = tag
        /\ \A k \in 1..(j-1) : n.children[k].tag # tag]
\* node.findtext(tag): None when no child has the tag, '' when its text is None
FindText(n, tag) ==
    IF ~HasChild(n, tag) THEN PyNone
    ELSE IF Truthy(Find(n, tag).text) THEN Find(n, tag).text ELSE Str("")
\* node.findtext('a/b')
FindText2(n, a, b) ==
    LET firsts == SelectSeq(n.children, LAMBDA c : c.tag = a /\ HasChild(c, b))
    IN IF firsts = <<>> THEN PyNone
       ELSE IF Truthy(Find(firsts[1], b).text) THEN Find(firsts[1], b).text
       ELSE Str("")

----------------------------------------------------------------------------
(* Serialization: ET.tostring, str.strip *)

\* whitespace-only strings of the model's text alphabet
Blank == {"", " ", "\n", "\n  "}
\* _escape_cdata on the model's text alphabet
EscapeCdata(s) == IF s = "a && b" THEN "a &amp;&amp; b" ELSE s

RECURSIVE Flatten(_)
Flatten(seqs) == IF seqs = <<>> THEN <<>> ELSE Head(seqs) \o Flatten(Tail(seqs))

RECURSIVE Join(_)
Join(chunks) == IF chunks = <<>> THEN "" ELSE Head(chunks) \o Join(Tail(chunks))

\* ET.tostring(node) as the sequence of chunks it writes: the start tag with
\* the attributes, the text, every child (with its tail), the end tag, and
\* the node's own tail
RECURSIVE tostring(_)
tostring(n) ==
    LET attrs == [j \in 1..Len(n.attrib) |->
                    " " \o n.attrib[j][1] \o "=\"" \o n.attrib[j][2] \o "\""]
        kids == Flatten([j \in 1..Len(n.children) |-> tostring(n.children[j])])
    IN  <<"<" \o n.tag>> \o attrs
        \o (IF Truthy(n.text) \/ n.children # <<>>
            THEN <<">">>
                 \o (IF Truthy(n.text) THEN <<EscapeCdata(n.text.s)>> ELSE <<>>)
                 \o kids \o <<"</" \o n.tag \o ">">>
            ELSE <<" />">>)
        \o (IF Truthy(n.tail) THEN <<EscapeCdata(n.tail.s)>> ELSE <<>>)

\* s.strip() on a chunk sequence whose chunks are blank or have no blank end
RECURSIVE LStrip(_)
LStrip(chunks) ==
    IF chunks # <<>> /\ Head(chunks) \in Blank THEN LStrip(Tail(chunks)) ELSE chunks
RECURSIVE RStrip(_)
RStrip(chunks) ==
    IF chunks # <<>> /\ chunks[Len(chunks)] \in Blank
    THEN RStrip(SubSeq(chunks, 1, Len(chunks) - 1)) ELSE chunks
Strip(chunks) == RStrip(LStrip(chunks))

----------------------------------------------------------------------------
(* The fallback codec *)

create_rawxml_nostrip(node) ==
    Dict(<< <<"raw", Dict(<< <<"xml", Str(Join(tostring(node)) \o "\n")>> >>)>> >>)

create_rawxml(node) ==
    Dict(<< <<"raw", Dict(<< <<"xml", Str(Join(Strip(tostring(node))) \o "\n")>> >>)>> >>)

insert_rawxml_front(node, output) == <<create_rawxml(node)>> \o output

insert_rawxml(node, output) == Append(output, create_rawxml(node))

IsRaw(v) ==
    /\ v.t = "dict" /\ Len(v.kv) = 1 /\ v.kv[1][1] = "raw"
    /\ v.kv[1][2].t = "dict" /\ Len(v.kv[1][2].kv) = 1
    /\ v.kv[1][2].kv[1][1] = "xml" /\ v.kv[1][2].kv[1][2].t = "str"
RawText(v) == v.kv[1][2].kv[1][2].s

----------------------------------------------------------------------------
(* String operations, on the strings of the model's alphabet *)

NIE == "NotImplementedError"

RECURSIVE str_replace(_, _)

\* s.replace(old, ''): every occurrence of old is removed, left to right
str_replace(s, old) ==
    IF Len(s) < Len(old) THEN s
    ELSE IF SubSeq(s, 1, Len(old)) = old
    THEN str_replace(SubSeq(s, Len(old) + 1, Len(s)), old)
    ELSE SubSeq(s, 1, 1) \o str_replace(SubSeq(s, 2, Len(s)), old)

\* re.sub('^prefix', '', s), the prefix a literal: removed once, at the start
re_sub_prefix(s, prefix) ==
    IF Len(s) >= Len(prefix) /\ SubSeq(s, 1, Len(prefix)) = prefix
    THEN SubSeq(s, Len(prefix) + 1, Len(s))
    ELSE s

\* s.split(',')
SplitComma(s) ==
    CASE s = "job-a,job-b" -> <<Str("job-a"), Str("job-b")>>
      [] OTHER -> <<Str(s)>>

\* s.lower()
Lower(s) ==
    CASE s = "NEVER" -> "never"
      [] s = "SUCCESS" -> "success"
      [] s = "UNSTABLE" -> "unstable"
      [] s = "FAILURE" -> "failure"
      [] s = "ABORTED" -> "aborted"
      [] s = "LINE" -> "line"
      [] s = "METHOD" -> "method"
      [] OTHER -> s

\* top.text == 'true'
IsTrue(n) == Bool(n.text = Str("true"))

----------------------------------------------------------------------------
(* handle_builder *)

selectdict ==
    Dict(<< <<"StatusBuildSelector", Str("last-successful")>>,
            <<"LastCompletedBuildSelector", Str("last-completed")>>,
            <<"SpecificBuildSelector", Str("specific-build")>>,
            <<"SavedBuildSelector", Str("last-saved")>>,
            <<"TriggeredBuildSelector", Str("upstream-build")>>,
            <<"PermalinkBuildSelector", Str("permalink")>>,
            <<"WorkspaceSelector", Str("workspace-latest")>>,
            <<"ParameterizedBuildSelector", Str("build-param")>>,
            <<"DownstreamBuildSelector", Str("downstream-build")>> >>)

\* which_build = selectdict[select]
select_which_build(select) ==
    IF HasKey(selectdict, select) THEN Ok(Get(selectdict, select))
    ELSE Raise("KeyError")

\* the 'hudson.plugins.copyartifact.CopyArtifact' branch
builder_copyartifact(builder) ==
    LET Body(copyartifact, el) ==
            CASE el.tag \in {"project", "filter", "target"} ->
                    Ok(Put(copyartifact, el.tag, el.text))
              [] el.tag = "excludes" ->
                    Ok(Put(copyartifact, "exclude-pattern", el.text))
              [] el.tag = "selector" ->
                    IF ~HasAttr(el, "class") THEN Raise("KeyError")
                    ELSE LET select == str_replace(Attr(el, "class"),
                                           "hudson.plugins.copyartifact.")
                         IN Bind(select_which_build(select),
                                 LAMBDA which :
                                    Ok(IF which = Str("build-param")
                                       THEN Put(Put(copyartifact, "which-build", which),
                                                "param", FindText(el, "parameterName"))
                                       ELSE Put(copyartifact, "which-build", which)))
              [] el.tag \in {"flatten", "optional"} ->
                    Ok(Put(copyartifact, el.tag, IsTrue(el)))
              [] el.tag = "doNotFingerprintArtifacts" ->
                    IF el.text # Str("false") THEN Raise(NIE) ELSE Ok(copyartifact)
              [] OTHER -> Raise(NIE)
    IN Bind(Loop(Body, Dict(<<>>), builder.children),
            LAMBDA copyartifact : Ok(Dict(<< <<"copyartifact", copyartifact>> >>)))

\* a local variable that no statement has assigned yet
Unbound == [t |-> "unbound"]

\* the 'hudson.tasks.Shell' branch
builder_shell(builder) ==
    LET Body(shell, el) ==
            IF el.tag = "command" THEN Ok(el.text) ELSE Raise(NIE)
    IN Bind(Loop(Body, Unbound, builder.children),
            LAMBDA shell : IF shell = Unbound THEN Raise("UnboundLocalError")
                           ELSE Ok(Dict(<< <<"shell", shell>> >>)))

\* the tag rewritten and the 'class' attribute kept
promote_tag_only(item) == [item EXCEPT !.tag = Attr(item, "class")]

\* item.copy(), then builder.tag = builder.attrib.pop('class')
promote_class(item) ==
    [item EXCEPT
        !.tag = Attr(item, "class"),
        !.attrib = SelectSeq(item.attrib, LAMBDA a : a[1] # "class")]

\* the 'condition' and 'runner' cases of the conditional builder's loop, and
\* its else branch
conditional_setting(conditional, item) ==
    CASE item.tag = "condition" ->
            IF ~HasAttr(item, "class") THEN Raise("KeyError")
            ELSE LET conditionClass == Attr(item, "class") IN
            CASE conditionClass = "org.jenkins_ci.plugins.run_condition.core.ExpressionCondition" ->
                    Ok(Put(Put(Put(conditional,
                        "condition-kind", Str("regex-match")),
                        "regex", FindText(item, "expression")),
                        "label", FindText(item, "label")))
              [] conditionClass = "org.jenkins_ci.plugins.run_condition.core.AlwaysRun" ->
                    Ok(Put(conditional, "condition-kind", Str("always")))
              [] conditionClass = "org.jenkins_ci.plugins.run_condition.core.NeverRun" ->
                    Ok(Put(conditional, "condition-kind", Str("never")))
              [] conditionClass = "org.jenkins_ci.plugins.run_condition.core.StatusCondition" ->
                    Ok(Put(Put(Put(conditional,
                        "condition-kind", Str("current-status")),
                        "condition-worst", FindText2(item, "worstResult", "name")),
                        "condition-best", FindText2(item, "bestResult", "name")))
              [] OTHER -> Raise(NIE)
      [] item.tag = "runner" ->
            IF ~HasAttr(item, "class") THEN Raise("KeyError")
            ELSE IF Attr(item, "class") = "org.jenkins_ci.plugins.run_condition.BuildStepRunner$Fail"
            THEN Ok(conditional)
            ELSE Raise(NIE)
      [] OTHER -> Raise(NIE)

RECURSIVE handle_builder(_)

\* the 'SingleConditionalBuilder' branch; the local variable builder is
\* rebound by the buildStep case, and is returned with the outcome
builder_conditional(builder0) ==
    LET Body(st, item) ==
            IF item.tag # "buildStep"
            THEN Either(conditional_setting(st.conditional, item),
                        LAMBDA c : Ok([conditional |-> c, builder |-> st.builder]),
                        LAMBDA e : [ok |-> FALSE, exc |-> e, builder |-> st.builder])
            ELSE IF ~HasAttr(item, "class")
            THEN [ok |-> FALSE, exc |-> "KeyError", builder |-> item]
            ELSE Either(handle_builder(promote_class(item)),
                        LAMBDA step :
                            Ok([conditional |-> Put(st.conditional, "steps", List(<<step>>)),
                                builder |-> promote_class(item)]),
                        LAMBDA e :
                            [ok |-> FALSE, exc |-> e, builder |-> promote_class(item)])
    IN Bind(Loop(Body, [conditional |-> Dict(<<>>), builder |-> builder0],
                 builder0.children),
            LAMBDA st : [ok |-> TRUE,
                         val |-> Dict(<< <<"conditional-step", st.conditional>> >>),
                         builder |-> st.builder])

\* for factoryNode in propertyNode: ... parameterFactories.append(factory)
trigger_factories(propertyNode) ==
    LET PropBody(factory, fp) ==
            CASE fp.tag = "filePattern" -> Ok(Put(factory, "file-pattern", fp.text))
              [] fp.tag = "noFilesFoundAction" ->
                    Ok(Put(factory, "no-files-found-action", fp.text))
              [] OTHER -> Raise(NIE)
        Body(parameterFactories, factoryNode) ==
            IF factoryNode.tag = "hudson.plugins.parameterizedtrigger.FileBuildParameterFactory"
            THEN Bind(Loop(PropBody, Dict(<< <<"factory", Str("filebuild")>> >>),
                           factoryNode.children),
                      LAMBDA factory : Ok(Append(parameterFactories, factory)))
            ELSE Raise(NIE)
    IN Loop(Body, <<>>, propertyNode.children)

\* the 'block' case: for threshold in propertyNode: ...
trigger_block_thresholds(propertyNode) ==
    LET Body(blockThresholds, threshold) ==
            LET name == FindText(threshold, "name") IN
            IF name = PyNone THEN Raise("AttributeError")
            ELSE LET value == Lower(name.s) IN
            IF value \notin {"never", "success", "unstable", "failure"} THEN Raise(NIE)
            ELSE CASE threshold.tag = "buildStepFailureThreshold" ->
                        Ok(Put(blockThresholds, "build-step-failure-threshold", Str(value)))
                   [] threshold.tag = "unstableThreshold" ->
                        Ok(Put(blockThresholds, "unstable-threshold", Str(value)))
                   [] threshold.tag = "failureThreshold" ->
                        Ok(Put(blockThresholds, "failure-threshold", Str(value)))
                   [] OTHER -> Raise(NIE)
    IN Loop(Body,
            Dict(<< <<"build-step-failure-threshold", Str("never")>>,
                    <<"unstable-threshold", Str("never")>>,
                    <<"failure-threshold", Str("never")>> >>),
            propertyNode.children)

\* the 'hudson.plugins.parameterizedtrigger.TriggerBuilder' branch
builder_trigger_builds(builder) ==
    LET ConfBody(triggerConfig, confconf) ==
            IF confconf.tag = "hudson.plugins.parameterizedtrigger.PredefinedBuildParameters"
            THEN Ok(Put(triggerConfig, "predefined-parameters",
                        FindText(confconf, "properties")))
            ELSE Raise(NIE)
        PropBody(triggerConfig, propertyNode) ==
            IF propertyNode.tag = "projects"
            THEN IF propertyNode.text = PyNone THEN Raise("TypeError")
                 ELSE Ok(Put(triggerConfig, "project",
                             IF Len(SplitComma(propertyNode.text.s)) > 1
                             THEN List(SplitComma(propertyNode.text.s))
                             ELSE propertyNode.text))
            ELSE IF propertyNode.tag = "configs"
            THEN Loop(ConfBody, triggerConfig, propertyNode.children)
            ELSE IF propertyNode.tag = "configFactories"
            THEN Bind(trigger_factories(propertyNode),
                      LAMBDA parameterFactories :
                          Ok(Put(triggerConfig, "parameter-factories",
                                 List(parameterFactories))))
            ELSE IF propertyNode.tag = "block"
            THEN Bind(trigger_block_thresholds(propertyNode),
                      LAMBDA blockThresholds :
                          Ok(Put(Put(triggerConfig, "block", Bool(TRUE)),
                                 "block-thresholds", blockThresholds)))
            ELSE IF \/ (propertyNode.tag = "condition" /\ propertyNode.text = Str("ALWAYS"))
                    \/ (/\ propertyNode.tag \in {"triggerWithNoParameters", "buildAllNodesWithLabel"}
                        /\ propertyNode.text = Str("false"))
            THEN Ok(triggerConfig)
            ELSE Raise(NIE)
        Body(triggerConfigs, configNode) ==
            IF configNode.tag # "hudson.plugins.parameterizedtrigger.BlockableBuildTriggerConfig"
            THEN Raise("UnboundLocalError")   \* the message reads item.tag, never assigned here
            ELSE Bind(Loop(PropBody, Dict(<<>>), configNode.children),
                      LAMBDA triggerConfig : Ok(Append(triggerConfigs, triggerConfig)))
    IN IF ~HasChild(builder, "configs") THEN Raise("TypeError")
       ELSE Bind(Loop(Body, <<>>, Find(builder, "configs").children),
                 LAMBDA triggerConfigs :
                     Ok(Dict(<< <<"trigger-builds", List(triggerConfigs)>> >>)))

\* handle_builder(builder): the typed record, or the Fallback Value when
\* NotImplementedError was raised; any other exception propagates
handle_builder(builder) ==
    LET \* except NotImplementedError: return create_rawxml(builder), on the
        \* node the name builder is bound to when the except clause runs
        Except(r) ==
            IF r.ok THEN Ok(r.val)
            ELSE IF r.exc # NIE THEN Raise(r.exc)
            ELSE Ok(create_rawxml(IF "builder" \in DOMAIN r THEN r.builder ELSE builder))
    IN Except(CASE builder.tag = "hudson.plugins.copyartifact.CopyArtifact" ->
                    builder_copyartifact(builder)
                [] builder.tag = "hudson.tasks.Shell" -> builder_shell(builder)
                [] builder.tag = "org.jenkinsci.plugins.conditionalbuildstep.singlestep.SingleConditionalBuilder" ->
                    builder_conditional(builder)
                [] builder.tag = "hudson.plugins.parameterizedtrigger.TriggerBuilder" ->
                    builder_trigger_builds(builder)
                [] OTHER -> Raise(NIE))

----------------------------------------------------------------------------
(* handle_trigger *)

\* every event emitted with a flags mapping, empty or not
gerrit_events_nested(setting) ==
    LET ExclBody(excludes, ec) ==
            IF ec.tag = "excludeDrafts" /\ ec.text = Str("true")
            THEN Ok(Put(excludes, "exclude-drafts", Bool(TRUE)))
            ELSE Ok(excludes)
        Body(events, eventChild) ==
            Bind(Loop(ExclBody, Dict(<<>>), eventChild.children),
                 LAMBDA excludes :
                    Ok(Append(events, Dict(<< <<"patchset-created-event", excludes>> >>))))
    IN Loop(Body, <<>>, setting.children)

\* the 'triggerOnEvents' case of the Gerrit trigger
gerrit_events(setting) ==
    LET P == "com.sonyericsson.hudson.plugins.gerrit.trigger.hudsontrigger.events."
        ExclBody(excludes, ec) ==
            CASE ec.tag = "excludeDrafts" /\ ec.text = Str("true") ->
                    Ok(Put(excludes, "exclude-drafts", Bool(TRUE)))
              [] ec.tag = "excludeTrivialRebase" /\ ec.text = Str("true") ->
                    Ok(Put(excludes, "exclude-trivial-rebase", Bool(TRUE)))
              [] ec.tag = "excludeNoCodeChange" /\ ec.text = Str("true") ->
                    Ok(Put(excludes, "exclude-no-code-change", Bool(TRUE)))
              [] OTHER -> Ok(excludes)
        Body(events, eventChild) ==
            CASE eventChild.tag = P \o "PluginRefUpdatedEvent" ->
                    Ok(Append(events, Str("ref-updated-event")))
              [] eventChild.tag = P \o "PluginDraftPublishedEvent" ->
                    Ok(Append(events, Str("draft-published-event")))
              [] eventChild.tag = P \o "PluginPatchsetCreatedEvent" ->
                    Bind(Loop(ExclBody, Dict(<<>>), eventChild.children),
                         LAMBDA excludes :
                            Ok(Append(events,
                                IF Len(excludes.kv) # 0
                                THEN Dict(<< <<"patchset-created-event", excludes>> >>)
                                ELSE Str("patchset-created-event"))))
              [] OTHER -> Raise(NIE)
    IN Loop(Body, <<>>, setting.children)

\* the 'gerritProjects' case of the Gerrit trigger
gerrit_projects(setting) ==
    LET BranchBody(branches, branchChild) ==
            Ok(Append(branches,
                Dict(<< <<"branch-compare-type", FindText(branchChild, "compareType")>>,
                        <<"branch-pattern", FindText(branchChild, "pattern")>> >>)))
        Body(projects, projectChild) ==
            IF ~HasChild(projectChild, "branches") THEN Raise("TypeError")
            ELSE Ok(Append(projects,
                Dict(<< <<"project-compare-type", FindText(projectChild, "compareType")>>,
                        <<"project-pattern", FindText(projectChild, "pattern")>>,
                        <<"branches",
                          List(Loop(BranchBody, <<>>,
                                    Find(projectChild, "branches").children).val)>> >>)))
    IN Loop(Body, <<>>, setting.children)

\* handle_trigger(trigger)
handle_trigger(trigger) ==
    LET PollBody(pollscm, setting) ==
            CASE setting.tag = "spec" -> Ok(Put(pollscm, "cron", setting.text))
              [] setting.tag = "ignorePostCommitHooks" ->
                    Ok(Put(pollscm, "ignore-post-commit-hooks", IsTrue(setting)))
              [] OTHER -> Raise(NIE)
        ReverseBody(reverse, setting) ==
            CASE setting.tag = "upstreamProjects" -> Ok(Put(reverse, "jobs", setting.text))
              [] setting.tag \in {"threshold", "spec"} -> Ok(reverse)
              [] OTHER -> Raise(NIE)
        GerritBody(gerrit, setting) ==
            CASE setting.tag = "gerritProjects" ->
                    Bind(gerrit_projects(setting),
                         LAMBDA projects : Ok(Put(gerrit, "projects", List(projects))))
              [] setting.tag = "triggerOnEvents" ->
                    Bind(gerrit_events(setting),
                         LAMBDA events : Ok(Put(gerrit, "trigger-on", List(events))))
              [] OTHER -> Ok(gerrit)
        Wrap(key, r) == IF r.ok THEN Ok(Dict(<< <<key, r.val>> >>)) ELSE r
        \* except NotImplementedError: return create_rawxml(trigger)
        Except(r) == IF ~r.ok /\ r.exc = NIE THEN Ok(create_rawxml(trigger)) ELSE r
    IN Except(
             CASE trigger.tag = "hudson.triggers.SCMTrigger" ->
                    Wrap("pollscm", Loop(PollBody, Dict(<<>>), trigger.children))
               [] trigger.tag = "hudson.triggers.TimerTrigger" ->
                    Wrap("timed", Ok(FindText(trigger, "spec")))
               [] trigger.tag = "jenkins.triggers.ReverseBuildTrigger" ->
                    Wrap("reverse", Loop(ReverseBody, Dict(<<>>), trigger.children))
               [] trigger.tag = "com.sonyericsson.hudson.plugins.gerrit.trigger.hudsontrigger.GerritTrigger" ->
                    Wrap("gerrit", Loop(GerritBody, Dict(<<>>), trigger.children))
               [] OTHER -> Raise(NIE))

----------------------------------------------------------------------------
(* handle_buildwrapper *)

\* int(text): the number, TypeError for None, ValueError for a text that is
\* not a decimal number
IntTexts == {"0", "3", "70", "80"}
ParseInt(text) ==
    IF text = PyNone THEN Raise("TypeError")
    ELSE IF text.s \notin IntTexts THEN Raise("ValueError")
    ELSE Ok(PyInt(CASE text.s = "0" -> 0 [] text.s = "3" -> 3
                    [] text.s = "70" -> 70 [] text.s = "80" -> 80))

\* handle_buildwrapper(wrapper)
handle_buildwrapper(wrapper) ==
    LET InjectBody(inject, element) ==
            CASE element.tag = "injectGlobalPasswords" ->
                    Ok(Put(inject, "global", IsTrue(element)))
              [] element.tag = "maskPasswordParameters" ->
                    Ok(Put(inject, "mask-password-params", IsTrue(element)))
              [] element.tag = "passwordEntries" ->
                    IF Len(element.children) > 0 THEN Raise(NIE) ELSE Ok(inject)
              [] OTHER -> Raise(NIE)
        OperationBody(timeout, operation) ==
            IF operation.tag = "hudson.plugins.build__timeout.operations.FailOperation"
            THEN Ok(Put(timeout, "fail", Bool(TRUE)))
            ELSE Raise(NIE)
        TimeoutBody(timeout, element) ==
            CASE element.tag = "strategy" ->
                    IF ~HasAttr(element, "class") THEN Raise("KeyError")
                    ELSE IF Attr(element, "class") = "hudson.plugins.build_timeout.impl.AbsoluteTimeOutStrategy"
                    THEN Bind(ParseInt(FindText(element, "timeoutMinutes")),
                              LAMBDA n : Ok(Put(Put(timeout, "type", Str("absolute")),
                                                "timeout", n)))
                    ELSE Raise(NIE)
              [] element.tag = "operationList" ->
                    Loop(OperationBody, timeout, element.children)
              [] OTHER -> Raise(NIE)
        SshBody(ssh_agents, element) ==
            CASE element.tag = "credentialIds" ->
                    Ok(Put(ssh_agents, "users",
                           List([j \in 1..Len(element.children) |-> element.children[j].text])))
              [] element.tag = "ignoreMissing" -> Ok(ssh_agents)
              [] OTHER -> Raise(NIE)
        Wrap(key, r) == IF r.ok THEN Ok(Dict(<< <<key, r.val>> >>)) ELSE r
        \* except NotImplementedError: return create_rawxml(wrapper)
        Except(r) == IF ~r.ok /\ r.exc = NIE THEN Ok(create_rawxml(wrapper)) ELSE r
    IN Except(
             CASE wrapper.tag = "EnvInjectPasswordWrapper" ->
                    Wrap("inject", Loop(InjectBody, Dict(<<>>), wrapper.children))
               [] wrapper.tag = "hudson.plugins.build__timeout.BuildTimeoutWrapper" ->
                    Wrap("timeout", Loop(TimeoutBody, Dict(<<>>), wrapper.children))
               [] wrapper.tag = "hudson.plugins.ansicolor.AnsiColorBuildWrapper" ->
                    Wrap("ansicolor", Ok(Dict(<< <<"colormap", Str("xterm")>> >>)))
               [] wrapper.tag = "com.cloudbees.jenkins.plugins.sshagent.SSHAgentBuildWrapper" ->
                    Wrap("ssh-agent-credentials", Loop(SshBody, Dict(<<>>), wrapper.children))
               [] wrapper.tag = "org.jenkinsci.plugins.buildnamesetter.BuildNameSetter" ->
                    IF wrapper.children = <<>> THEN Raise("IndexError")
                    ELSE Wrap("build-name",
                              Ok(Dict(<< <<"name", wrapper.children[1].text>> >>)))
               [] OTHER -> Raise(NIE))

----------------------------------------------------------------------------
(* dict_merge, on a heap of mutable dict objects *)

\* A dict object is heap[id], its entries <<key, value>> in order; a value is
\* an int or a reference to a dict object.
Ref(id) == [t |-> "ref", id |-> id]
IsDictRef(v) == v.t = "ref"

ObjHas(obj, k) == \E j \in 1..Len(obj) : obj[j][1] = k
ObjGet(obj, k) == obj[CHOOSE j \in 1..Len(obj) : obj[j][1] = k][2]
\* heap[id][k] = v, in place
SetItem(h, id, k, v) ==
    [h EXCEPT ![id] =
        IF ObjHas(h[id], k)
        THEN [j \in 1..Len(h[id]) |->
                IF h[id][j][1] = k THEN <<k, v>> ELSE h[id][j]]
        ELSE Append(h[id], <<k, v>>)]

\* copy.deepcopy(v): new objects for v and everything below it
RECURSIVE deepcopy(_, _)
deepcopy(h, v) ==
    IF ~IsDictRef(v) THEN [h |-> h, v |-> v]
    ELSE LET entries == h[v.id]
             f[i \in 0..Len(entries)] ==
                 IF i = 0 THEN [h |-> h, kv |-> <<>>]
                 ELSE LET c == deepcopy(f[i-1].h, entries[i][2])
                      IN [h |-> c.h,
                          kv |-> Append(f[i-1].kv, <<entries[i][1], c.v>>)]
             r == f[Len(entries)]
         IN [h |-> Append(r.h, r.kv), v |-> Ref(Len(r.h) + 1)]

RECURSIVE dict_merge(_, _, _)
\* dict_merge as a one-level update: an overlay value always replaces base's
dict_merge_update(h, a, b) ==
    IF ~IsDictRef(b) THEN [h |-> h, v |-> b, exc |-> ""]
    ELSE IF ~IsDictRef(a) THEN [h |-> h, v |-> PyNone, exc |-> "TypeError"]
    ELSE LET c == deepcopy(h, a)
             h1 == Append(c.h, c.h[c.v.id])
             res == Len(h1)
             items == h[b.id]
             f[i \in 0..Len(items)] ==
                 IF i = 0 THEN h1
                 ELSE LET d == deepcopy(f[i-1], items[i][2])
                      IN SetItem(d.h, res, items[i][1], d.v)
         IN [h |-> f[Len(items)], v |-> Ref(res), exc |-> ""]

\* dict_merge with "result = a" in place of "result = OrderedDict(deepcopy(a))"
dict_merge_nocopy(h, a, b) ==
    IF ~IsDictRef(b) THEN [h |-> h, v |-> b, exc |-> ""]
    ELSE IF ~IsDictRef(a) THEN [h |-> h, v |-> PyNone, exc |-> "TypeError"]
    ELSE LET res == a.id
             items == h[b.id]
             f[i \in 0..Len(items)] ==
                 IF i = 0 THEN h
                 ELSE LET hp == f[i-1]
                          k == items[i][1]
                          v == items[i][2]
                      IN IF ObjHas(hp[res], k) /\ IsDictRef(ObjGet(hp[res], k))
                         THEN LET m == dict_merge(hp, ObjGet(hp[res], k), v)
                              IN SetItem(m.h, res, k, m.v)
                         ELSE LET d == deepcopy(hp, v)
                              IN SetItem(d.h, res, k, d.v)
         IN [h |-> f[Len(items)], v |-> Ref(res), exc |-> ""]

\* dict_merge(a, b): returns [h: the heap after the call, v: the value
\* returned, exc: the exception raised ("" when none)]
dict_merge(h, a, b) ==
    IF ~IsDictRef(b) THEN [h |-> h, v |-> b, exc |-> ""]
    ELSE IF ~IsDictRef(a) THEN [h |-> h, v |-> PyNone, exc |-> "TypeError"]
    ELSE LET c == deepcopy(h, a)
             \* OrderedDict(...): one more object with the copy's entries
             h1 == Append(c.h, c.h[c.v.id])
             res == Len(h1)
             items == h[b.id]
             f[i \in 0..Len(items)] ==
                 IF i = 0 THEN h1
                 ELSE LET hp == f[i-1]
                          k == items[i][1]
                          v == items[i][2]
                      IN IF ObjHas(hp[res], k) /\ IsDictRef(ObjGet(hp[res], k))
                         THEN LET m == dict_merge(hp, ObjGet(hp[res], k), v)
                              IN SetItem(m.h, res, k, m.v)
                         ELSE LET d == deepcopy(hp, v)
                              IN SetItem(d.h, res, k, d.v)
         IN [h |-> f[Len(items)], v |-> Ref(res), exc |-> ""]

\* the dict objects of a nested dict value, put on the heap
RECURSIVE Alloc(_, _)
Alloc(h, m) ==
    IF m.t # "dict" THEN [h |-> h, v |-> m]
    ELSE LET f[i \in 0..Len(m.kv)] ==
                 IF i = 0 THEN [h |-> h, kv |-> <<>>]
                 ELSE LET c == Alloc(f[i-1].h, m.kv[i][2])
                      IN [h |-> c.h, kv |-> Append(f[i-1].kv, <<m.kv[i][1], c.v>>)]
             r == f[Len(m.kv)]
         IN [h |-> Append(r.h, r.kv), v |-> Ref(Len(r.h) + 1)]

\* the nested dict value a heap value stands for, entries in order
RECURSIVE Load(_, _)
Load(h, v) ==
    IF ~IsDictRef(v) THEN v
    ELSE Dict([j \in 1..Len(h[v.id]) |-> <<h[v.id][j][1], Load(h, h[v.id][j][2])>>])

\* dict_merge(a, b) called on two dict values
dict_merge_values(a, b) ==
    LET Merged(m) == Load(m.h, m.v)
        Both(ha, hb) == Merged(dict_merge(hb.h, ha.v, hb.v))
        First(ha) == Both(ha, Alloc(ha.h, b))
    IN First(Alloc(<<>>, a))

----------------------------------------------------------------------------
(* handle_publishers *)

\* for element in child: one key per known tag, NotImplementedError for any
\* other tag; texts maps a tag to the key that takes the text, flags maps a
\* tag to the key that takes (text == 'true')
SimpleSettings(child, texts, flags) ==
    LET Body(d, element) ==
            IF HasKey(texts, element.tag)
            THEN Ok(Put(d, Get(texts, element.tag), element.text))
            ELSE IF HasKey(flags, element.tag)
            THEN Ok(Put(d, Get(flags, element.tag), IsTrue(element)))
            ELSE Raise(NIE)
    IN Loop(Body, Dict(<<>>), child.children)

\* the table with the keys of FailureTrigger and FirstFailureTrigger exchanged
email_trigger_keys_exchanged ==
    Dict(<< <<"AlwaysTrigger", "always">>, <<"UnstableTrigger", "unstable">>,
            <<"FirstFailureTrigger", "failure">>, <<"NotBuiltTrigger", "not-built">>,
            <<"AbortedTrigger", "aborted">>, <<"RegressionTrigger", "regression">>,
            <<"FailureTrigger", "first-failure">>, <<"SecondFailureTrigger", "second-failure">>,
            <<"ImprovementTrigger", "improvement">>, <<"StillFailingTrigger", "still-failing">>,
            <<"SuccessTrigger", "success">>, <<"FixedTrigger", "fixed">>,
            <<"StillUnstableTrigger", "still-unstable">>, <<"PreBuildTrigger", "pre-build">> >>)

email_trigger_keys ==
    Dict(<< <<"AlwaysTrigger", "always">>, <<"UnstableTrigger", "unstable">>,
            <<"FirstFailureTrigger", "first-failure">>, <<"NotBuiltTrigger", "not-built">>,
            <<"AbortedTrigger", "aborted">>, <<"RegressionTrigger", "regression">>,
            <<"FailureTrigger", "failure">>, <<"SecondFailureTrigger", "second-failure">>,
            <<"ImprovementTrigger", "improvement">>, <<"StillFailingTrigger", "still-failing">>,
            <<"SuccessTrigger", "success">>, <<"FixedTrigger", "fixed">>,
            <<"StillUnstableTrigger", "still-unstable">>, <<"PreBuildTrigger", "pre-build">> >>)

mime_content_type ==
    Dict(<< <<"text/plain", Str("text")>>, <<"text/html", Str("html")>>,
            <<"both", Str("both-html-text")>> >>)

\* the 'hudson.plugins.emailext.ExtendedEmailPublisher' branch
publisher_email_ext(child) ==
    LET TriggerBody(ext_email, trigger) ==
            LET triggerClass ==
                    re_sub_prefix(trigger.tag, "hudson.plugins.emailext.plugins.trigger.")
            IN IF HasKey(email_trigger_keys, triggerClass)
               THEN Ok(Put(ext_email, Get(email_trigger_keys, triggerClass), Bool(TRUE)))
               ELSE Raise(NIE)
        \* if element.text != dflt: ext_email[key] = element.text
        Unless(ext_email, element, dflt, key) ==
            Ok(IF element.text # Str(dflt) THEN Put(ext_email, key, element.text)
               ELSE ext_email)
        \* if element.text == 'true': ext_email[key] = True
        WhenTrue(ext_email, element, key) ==
            Ok(IF element.text = Str("true") THEN Put(ext_email, key, Bool(TRUE))
               ELSE ext_email)
        Body(ext_email, element) ==
            CASE element.tag = "recipientList" ->
                    Unless(ext_email, element, "$DEFAULT_RECIPIENTS", "recipients")
              [] element.tag = "replyTo" ->
                    Unless(ext_email, element, "$DEFAULT_REPLYTO", "reply-to")
              [] element.tag = "contentType" ->
                    IF element.text = Str("default") THEN Ok(ext_email)
                    ELSE IF element.text = PyNone \/ ~HasKey(mime_content_type, element.text.s)
                    THEN Raise(NIE)
                    ELSE Ok(Put(ext_email, "content-type",
                                Get(mime_content_type, element.text.s)))
              [] element.tag = "defaultSubject" ->
                    Unless(ext_email, element, "$DEFAULT_SUBJECT", "subject")
              [] element.tag = "defaultContent" ->
                    Unless(ext_email, element, "$DEFAULT_CONTENT", "body")
              [] element.tag = "attachBuildLog" -> WhenTrue(ext_email, element, "attach-build-log")
              [] element.tag = "compressBuildLog" ->
                    WhenTrue(ext_email, element, "compress-build-log")
              [] element.tag = "attachmentsPattern" ->
                    Ok(IF Truthy(element.text) THEN Put(ext_email, "attachments", element.text)
                       ELSE ext_email)
              [] element.tag = "saveOutput" -> WhenTrue(ext_email, element, "save-output")
              [] element.tag = "disabled" -> WhenTrue(ext_email, element, "disable-publisher")
              [] element.tag = "presendScript" ->
                    Unless(ext_email, element, "$DEFAULT_PRESEND_SCRIPT", "presend-script")
              [] element.tag = "configuredTriggers" ->
                    Loop(TriggerBody, Put(ext_email, "failure", Bool(FALSE)),
                         element.children)
              [] OTHER -> Raise(NIE)
    IN Loop(Body, Dict(<<>>), child.children)

\* the 'hudson.plugins.parameterizedtrigger.BuildTrigger' branch
publisher_build_trigger(child) ==
    LET ConfigBody(build_trigger, config) ==
            CASE config.tag = "projects" -> Ok(Put(build_trigger, "project", config.text))
              [] config.tag = "condition" -> Ok(Put(build_trigger, "condition", config.text))
              [] config.tag = "triggerWithNoParameters" ->
                    Ok(Put(build_trigger, "trigger-with-no-params", IsTrue(config)))
              [] config.tag = "configs" -> Ok(build_trigger)
              [] OTHER -> Raise(NIE)
        SubBody(build_trigger, sub) ==
            IF sub.tag = "hudson.plugins.parameterizedtrigger.BuildTriggerConfig"
            THEN Loop(ConfigBody, build_trigger, sub.children)
            ELSE Ok(build_trigger)
        Body(build_trigger, element) == Loop(SubBody, build_trigger, element.children)
    IN Loop(Body, Dict(<<>>), child.children)

\* the 'htmlpublisher.HtmlPublisher' branch
publisher_html(child) ==
    LET Body(html_settings, element) ==
            CASE element.tag = "reportName" -> Ok(Put(html_settings, "name", element.text))
              [] element.tag = "reportDir" -> Ok(Put(html_settings, "dir", element.text))
              [] element.tag = "reportFiles" -> Ok(Put(html_settings, "files", element.text))
              [] element.tag = "alwaysLinkToLastBuild" ->
                    Ok(Put(html_settings, "link-to-last-build", IsTrue(element)))
              [] element.tag = "keepAll" -> Ok(Put(html_settings, "keep-all", IsTrue(element)))
              [] element.tag = "allowMissing" ->
                    Ok(Put(html_settings, "allow-missing", IsTrue(element)))
              [] element.tag = "wrapperName"
                   /\ element.text = Str("htmlpublisher-wrapper.html") -> Ok(html_settings)
              [] OTHER -> Raise(NIE)
    IN IF \/ Len(child.children) # 1
          \/ Len(child.children[1].children) # 1
          \/ child.children[1].tag # "reportTargets"
          \/ child.children[1].children[1].tag # "htmlpublisher.HtmlPublisherTarget"
       THEN Raise(NIE)
       ELSE Loop(Body, Dict(<<>>), child.children[1].children[1].children)

\* the 'hudson.plugins.cobertura.CoberturaPublisher' branch; targetList is a
\* plain dict, listed here as <<metric, record>> pairs in insertion order,
\* and hashorder is the order in which targetList.items() yields the metrics
publisher_cobertura(child, hashorder) ==
    LET targets == Dict(<< <<"healthyTarget", "healthy">>,
                           <<"unhealthyTarget", "unhealthy">>,
                           <<"failingTarget", "failing">> >>)
        flags == Dict(<< <<"onlyStable", "only-stable">>,
                         <<"failUnhealthy", "fail-unhealthy">>,
                         <<"failUnstable", "fail-unstable">>,
                         <<"autoUpdateHealth", "health-auto-update">>,
                         <<"autoUpdateStability", "stability-auto-update">>,
                         <<"zoomCoverageChart", "zoom-coverage-chart">>,
                         <<"failNoReports", "fail-no-report">> >>)
        \* param.findall('targets/entry')
        Entries(param) ==
            Flatten([j \in 1..Len(param.children) |->
                IF param.children[j].tag = "targets"
                THEN SelectSeq(param.children[j].children, LAMBDA e : e.tag = "entry")
                ELSE <<>>])
        EntryBody(es, te) ==
            IF ~HasChild(te, "hudson.plugins.cobertura.targets.CoverageMetric")
            THEN Raise("AttributeError")
            ELSE LET metric == Find(te, "hudson.plugins.cobertura.targets.CoverageMetric")
                 IN IF metric.text = PyNone THEN Raise("AttributeError")
                    ELSE IF ~HasChild(te, "int") THEN Raise("AttributeError")
                    ELSE LET name == Lower(metric.text.s)
                             tl == Dict(es.targetList)
                             old == IF HasKey(tl, name) THEN Get(tl, name) ELSE Dict(<<>>)
                         IN Bind(ParseInt(Find(te, "int").text),
                                 LAMBDA n :
                                    Ok([es EXCEPT !.targetList =
                                        Put(tl, name,
                                            dict_merge_values(old,
                                                Dict(<< <<es.field, n>> >>))).kv]))
        Body(st, param) ==
            CASE param.tag = "coberturaReportFile" ->
                    Ok([st EXCEPT !.cobertura = Put(@, "report-file", param.text)])
              [] HasKey(flags, param.tag) ->
                    Ok([st EXCEPT !.cobertura = Put(@, Get(flags, param.tag), IsTrue(param))])
              [] param.tag = "sourceEncoding" ->
                    Ok([st EXCEPT !.cobertura = Put(@, "source-encoding", param.text)])
              [] HasKey(targets, param.tag) ->
                    Bind(Loop(EntryBody,
                              [targetList |-> st.targetList,
                               field |-> Get(targets, param.tag)],
                              Entries(param)),
                         LAMBDA es :
                            Ok([cobertura |->
                                    IF HasKey(st.cobertura, "targets") THEN st.cobertura
                                    ELSE Put(st.cobertura, "targets", List(<<>>)),
                                targetList |-> es.targetList]))
              [] OTHER -> Ok(st)
        \* for (key, val) in targetList.items(): cobertura['targets'].append({key: val})
        Targets(st) ==
            LET tl == Dict(st.targetList)
                listed == SelectSeq(hashorder, LAMBDA m : HasKey(tl, m))
            IN Ok(IF listed = <<>> THEN st.cobertura
                  ELSE Put(st.cobertura, "targets",
                           List([j \in 1..Len(listed) |->
                                   Dict(<< <<listed[j], Get(tl, listed[j])>> >>)])))
    IN Bind(Loop(Body, [cobertura |-> Dict(<<>>), targetList |-> <<>>], child.children),
            Targets)

\* one pass of handle_publishers' loop body for child, before the except
\* clause: the items it appends to publishers, or the exception it raises
publisher_item(child, hashorder) ==
    LET Wrap(key, r) == IF r.ok THEN Ok(<<Dict(<< <<key, r.val>> >>)>>) ELSE r
    IN CASE child.tag = "hudson.tasks.ArtifactArchiver" ->
               Wrap("archive", SimpleSettings(child,
                   Dict(<< <<"artifacts", "artifacts">>, <<"excludes", "excludes">> >>),
                   Dict(<< <<"allowEmptyArchive", "allow-empty">>,
                           <<"fingerprint", "fingerprint">>,
                           <<"onlyIfSuccessful", "only-if-success">>,
                           <<"defaultExcludes", "default-excludes">> >>)))
         [] child.tag = "hudson.plugins.descriptionsetter.DescriptionSetterPublisher" ->
               Wrap("description-setter", SimpleSettings(child,
                   Dict(<< <<"regexp", "regexp">>, <<"regexpForFailed", "regexp-for-failed">>,
                           <<"description", "description">> >>),
                   Dict(<< <<"setForMatrix", "set-for-matrix">> >>)))
         [] child.tag = "hudson.tasks.Fingerprinter" ->
               Wrap("fingerprint", SimpleSettings(child,
                   Dict(<< <<"targets", "files">> >>),
                   Dict(<< <<"recordBuildArtifacts", "record-artifacts">> >>)))
         [] child.tag = "hudson.plugins.emailext.ExtendedEmailPublisher" ->
               Wrap("email-ext", publisher_email_ext(child))
         [] child.tag = "hudson.tasks.junit.JUnitResultArchiver" ->
               Wrap("junit", SimpleSettings(child,
                   Dict(<< <<"testResults", "results">>,
                           <<"healthScaleFactor", "health-scale-factor">> >>),
                   Dict(<< <<"keepLongStdio", "keep-long-stdio">> >>)))
         [] child.tag = "hudson.plugins.parameterizedtrigger.BuildTrigger" ->
               Wrap("trigger-parameterized-builds", publisher_build_trigger(child))
         [] child.tag = "hudson.tasks.Mailer" ->
               Wrap("email", SimpleSettings(child,
                   Dict(<< <<"recipients", "recipients">> >>),
                   Dict(<< <<"dontNotifyEveryUnstableBuild", "notify-every-unstable-build">>,
                           <<"sendToIndividuals", "send-to-individuals">> >>)))
         [] child.tag = "htmlpublisher.HtmlPublisher" ->
               Wrap("html-publisher", publisher_html(child))
         [] child.tag = "hudson.plugins.cobertura.CoberturaPublisher" ->
               Wrap("cobertura", publisher_cobertura(child, hashorder))
         [] child.tag = "jenkins.plugins.slack.SlackNotifier" -> Ok(<<>>)
         [] OTHER -> Raise(NIE)

----------------------------------------------------------------------------
(* The leaf handlers and handle_parameters_property *)

\* [[key, value]], the list a leaf handler returns; node is the handler's
\* argument top
Entry(key, value) == List(<<List(<<Str(key), value>>)>>)

handle_description(node) == Entry("description", node.text)
handle_keepdependencies(node) == PyNone
handle_canroam(node) == PyNone
handle_disabled(node) == Entry("disabled", IsTrue(node))
handle_blockbuildwhendownstreambuilding(node) == Entry("block-downstream", IsTrue(node))
handle_blockbuildwhenupstreambuilding(node) == Entry("block-upstream", IsTrue(node))
handle_concurrentbuild(node) == Entry("concurrent", IsTrue(node))
handle_combinationfilter(node) == Entry("combination-filter", node.text)
handle_assignednode(node) == Entry("node", node.text)
handle_displayname(node) == Entry("display-name", node.text)
handle_quietperiod(node) == Entry("quiet-period", node.text)
handle_scmcheckoutretrycount(node) == Entry("retry-count", node.text)
handle_customworkspace(node) == Entry("workspace", node.text)

\* handle_parameters_property(top): the list of parameters
handle_parameters_property(node) ==
    LET SettingBody(parameter_settings, defsetting) ==
            Ok(Put(parameter_settings,
                   IF defsetting.tag = "defaultValue" THEN "default" ELSE defsetting.tag,
                   CASE defsetting.text = PyNone -> Str("")
                     [] defsetting.text = Str("true") -> Bool(TRUE)
                     [] defsetting.text = Str("false") -> Bool(FALSE)
                     [] OTHER -> defsetting.text))
        Typed(parameters, parameter_type, parameterdef) ==
            Bind(Loop(SettingBody, Dict(<<>>), parameterdef.children),
                 LAMBDA parameter_settings :
                    Ok(Append(parameters,
                              Dict(<< <<parameter_type, parameter_settings>> >>))))
        DefBody(parameters, parameterdef) ==
            CASE parameterdef.tag = "hudson.model.StringParameterDefinition" ->
                    Typed(parameters, "string", parameterdef)
              [] parameterdef.tag = "hudson.model.BooleanParameterDefinition" ->
                    Typed(parameters, "bool", parameterdef)
              [] OTHER -> Ok(insert_rawxml(parameterdef, parameters))
        Body(parameters, parameterdefs) ==
            IF parameterdefs.tag # "parameterDefinitions" THEN Raise(NIE)
            ELSE Loop(DefBody, parameters, parameterdefs.children)
    IN Loop(Body, <<>>, node.children)

----------------------------------------------------------------------------
(* handle_properties *)

handle_github_project_property(node) ==
    LET Body(github, child) ==
            IF child.tag = "projectUrl" THEN Ok(Put(github, "url", child.text))
            ELSE Raise(NIE)
    IN Bind(Loop(Body, Dict(<<>>), node.children),
            LAMBDA github : Ok(Dict(<< <<"github", github>> >>)))

\* ','.join(projects): TypeError when an item is None
JoinComma(projects) ==
    LET f[i \in 0..Len(projects)] ==
            IF i = 0 THEN ""
            ELSE IF i = 1 THEN projects[1].s
            ELSE f[i-1] \o "," \o projects[i].s
    IN IF \E i \in 1..Len(projects) : projects[i] = PyNone THEN Raise("TypeError")
       ELSE Ok(Str(f[Len(projects)]))

handle_copy_artifact_property(node) ==
    LET NameBody(projects, c) ==
            IF c.tag = "string" THEN Ok(Append(projects, c.text)) ELSE Raise(NIE)
        Joined(copy_artifact, projects) ==
            Bind(JoinComma(projects),
                 LAMBDA joined : Ok([copy_artifact |-> Put(copy_artifact, "projects", joined),
                                     projects |-> projects]))
        Body(st, child) ==
            IF child.tag = "projectNameList"
            THEN Bind(Loop(NameBody, st.projects, child.children),
                      LAMBDA projects : Joined(st.copy_artifact, projects))
            ELSE Raise(NIE)
    IN Bind(Loop(Body, [copy_artifact |-> Dict(<<>>), projects |-> <<>>], node.children),
            LAMBDA st : Ok(Dict(<< <<"copyartifact", st.copy_artifact>> >>)))

handle_rebuild_settings_property(node) ==
    LET Body(rebuild, child) ==
            CASE child.tag = "autoRebuild" -> Ok(Put(rebuild, "auto-rebuild", IsTrue(child)))
              [] child.tag = "rebuildDisabled" ->
                    Ok(Put(rebuild, "rebuild-disabled", IsTrue(child)))
              [] OTHER -> Raise(NIE)
    IN Bind(Loop(Body, Dict(<<>>), node.children),
            LAMBDA rebuild : Ok(Dict(<< <<"rebuild", rebuild>> >>)))

known_slack_properties ==
    Dict(<< <<"startNotification", "notify-start">>,
            <<"notifySuccess", "notify-success">>,
            <<"notifyAborted", "notify-aborted">>,
            <<"notifyNotBuilt", "notify-not-built">>,
            <<"notifyUnstable", "notify-unstable">>,
            <<"notifyFailure", "notify-failure">>,
            <<"notifyRepeatedFailure", "notify-repeated-failure">>,
            <<"notifyBackToNormal", "notify-back-to-normal">>,
            <<"includeTestSummary", "include-test-summary">>,
            <<"showCommitList", "show-commit-list">> >>)

\* the entry with 'enabled' after the other keys
slack_entries_enabled_last(slack, enableSlack) ==
    IF enableSlack
    THEN <<List(<<Str("slack"), Dict(slack.kv \o << <<"enabled", Bool(TRUE)>> >>)>>)>>
    ELSE <<>>

\* if enableSlack: slack = OrderedDict([('enabled', True)] + slack.items());
\* result.append(['slack', slack])
slack_entries(slack, enableSlack) ==
    IF enableSlack
    THEN <<List(<<Str("slack"), Dict(<< <<"enabled", Bool(TRUE)>> >> \o slack.kv)>>)>>
    ELSE <<>>

\* the 'SlackNotifier_-SlackJobProperty' branch: the entries it appends to
\* result
property_slack(child) ==
    LET Body(st, slackProp) ==
            CASE HasKey(known_slack_properties, slackProp.tag) ->
                    Ok(IF slackProp.text = Str("true")
                       THEN [st EXCEPT
                                !.slack = Put(@, Get(known_slack_properties, slackProp.tag),
                                              Bool(TRUE)),
                                !.enableSlack = TRUE]
                       ELSE st)
              [] slackProp.tag = "includeCustomMessage" ->
                    Ok([st EXCEPT !.customMessageEnabled = (slackProp.text = Str("true"))])
              [] slackProp.tag = "customMessage" ->
                    Ok([st EXCEPT !.customMessage = slackProp.text])
              [] slackProp.tag = "room" ->
                    Ok(IF Truthy(slackProp.text)
                       THEN [st EXCEPT !.slack = Put(@, "room", slackProp.text)]
                       ELSE st)
              [] slackProp.tag \in {"teamDomain", "token"} -> Ok(st)
              [] OTHER -> Raise(NIE)
        Message(st) ==
            IF st.customMessageEnabled
            THEN Put(st.slack, "custom-message", st.customMessage)
            ELSE st.slack
    IN Bind(Loop(Body, [slack |-> Dict(<<>>), customMessageEnabled |-> FALSE,
                        customMessage |-> Str(""), enableSlack |-> FALSE],
                 child.children),
            LAMBDA st : Ok(slack_entries(Message(st), st.enableSlack)))

\* result = [['properties', properties], ['parameters', parameters]]
PropertiesResult(properties, parameters, more) ==
    List(<<List(<<Str("properties"), List(properties)>>),
           List(<<Str("parameters"), List(parameters)>>)>> \o more)

PropertiesOf(res) == res.items[1].items[2].items

ParametersOf(res) == res.items[2].items[2].items

\* one pass of handle_properties' loop body for child, the except clause
\* included: the result list after it, or the exception it raises
property_item(res, child) ==
    LET WithProperty(r) ==
            Bind(r, LAMBDA property :
                Ok(PropertiesResult(Append(PropertiesOf(res), property), ParametersOf(res),
                                    SubSeq(res.items, 3, Len(res.items)))))
        Except(r) ==
            IF r.ok THEN r
            ELSE IF r.exc = NIE
            THEN Ok(PropertiesResult(insert_rawxml(child, PropertiesOf(res)),
                                     ParametersOf(res),
                                     SubSeq(res.items, 3, Len(res.items))))
            ELSE r
    IN Except(
        CASE child.tag = "com.coravy.hudson.plugins.github.GithubProjectProperty" ->
                WithProperty(handle_github_project_property(child))
          [] child.tag = "hudson.model.ParametersDefinitionProperty" ->
                Bind(handle_parameters_property(child),
                     LAMBDA parametersdefs :
                        Ok(PropertiesResult(PropertiesOf(res),
                                            ParametersOf(res) \o parametersdefs,
                                            SubSeq(res.items, 3, Len(res.items)))))
          [] child.tag = "com.sonyericsson.rebuild.RebuildSettings" ->
                WithProperty(handle_rebuild_settings_property(child))
          [] child.tag = "hudson.plugins.copyartifact.CopyArtifactPermissionProperty" ->
                WithProperty(handle_copy_artifact_property(child))
          [] child.tag = "jenkins.plugins.slack.SlackNotifier_-SlackJobProperty" ->
                Bind(property_slack(child),
                     LAMBDA entries :
                        Ok(PropertiesResult(PropertiesOf(res), ParametersOf(res),
                                            SubSeq(res.items, 3, Len(res.items)) \o entries)))
          [] OTHER -> Raise(NIE))

----------------------------------------------------------------------------
(* Spec: the container handlers handle_builders, handle_triggers,
   handle_buildwrappers, handle_publishers and handle_properties, one child
   per step *)

MaxItems == 2

\* <tag>text</tag>
E(tag, text) == Node(tag, <<>>, Str(text), PyNone, <<>>)
\* <tag>children</tag>, <tag/> when there are none
P(tag, children) == Node(tag, <<>>, PyNone, PyNone, children)
\* <tag class="class">children</tag>
C(tag, class, children) == Node(tag, << <<"class", class>> >>, PyNone, PyNone, children)

\* items every part of which the handler supports
WellFormedItems(h) ==
    CASE h = "builders" ->
        {P("hudson.tasks.Shell", <<E("command", "make")>>),
         P("hudson.plugins.copyartifact.CopyArtifact",
           <<E("project", "upstream"), E("filter", "*.tgz"),
             C("selector", "hudson.plugins.copyartifact.StatusBuildSelector", <<>>),
             E("flatten", "true"), E("doNotFingerprintArtifacts", "false")>>),
         P("hudson.plugins.copyartifact.CopyArtifact",
           <<C("selector", "hudson.plugins.copyartifact.ParameterizedBuildSelector",
               <<E("parameterName", "BUILD")>>),
             E("optional", "false"), E("excludes", "*.o"), E("target", "out")>>),
         P("org.jenkinsci.plugins.conditionalbuildstep.singlestep.SingleConditionalBuilder",
           <<C("condition", "org.jenkins_ci.plugins.run_condition.core.StatusCondition",
               <<P("worstResult", <<E("name", "SUCCESS")>>),
                 P("bestResult", <<E("name", "SUCCESS")>>)>>),
             C("buildStep", "hudson.tasks.Shell", <<E("command", "make")>>),
             C("runner", "org.jenkins_ci.plugins.run_condition.BuildStepRunner$Fail", <<>>)>>),
         \* conditional builders the handler supports, with a nested step it
         \* does not
         P("org.jenkinsci.plugins.conditionalbuildstep.singlestep.SingleConditionalBuilder",
           <<C("condition", "org.jenkins_ci.plugins.run_condition.core.AlwaysRun", <<>>),
             C("runner", "org.jenkins_ci.plugins.run_condition.BuildStepRunner$Fail", <<>>),
             Node("buildStep",
                  << <<"class", "org.example.UnknownPlugin">>, <<"plugin", "unknown@1.0">> >>,
                  PyNone, Str("\n  "), <<E("setting", "1")>>)>>),
         P("org.jenkinsci.plugins.conditionalbuildstep.singlestep.SingleConditionalBuilder",
           <<C("condition", "org.jenkins_ci.plugins.run_condition.core.NeverRun", <<>>),
             C("buildStep", "hudson.tasks.Shell",
               <<E("command", "make"), E("unstableReturn", "2")>>)>>),
         P("hudson.plugins.parameterizedtrigger.TriggerBuilder",
           <<P("configs",
               <<P("hudson.plugins.parameterizedtrigger.BlockableBuildTriggerConfig",
                   <<P("configs",
                       <<P("hudson.plugins.parameterizedtrigger.PredefinedBuildParameters",
                           <<E("properties", "A=1")>>)>>),
                     P("configFactories",
                       <<P("hudson.plugins.parameterizedtrigger.FileBuildParameterFactory",
                           <<E("filePattern", "*.props"),
                             E("noFilesFoundAction", "SKIP")>>)>>),
                     E("projects", "job-a,job-b"),
                     E("condition", "ALWAYS"),
                     E("triggerWithNoParameters", "false"),
                     P("block",
                       <<P("unstableThreshold", <<E("name", "UNSTABLE")>>),
                         P("failureThreshold", <<E("name", "FAILURE")>>)>>),
                     E("buildAllNodesWithLabel", "false")>>)>>)>>),
         P("hudson.plugins.parameterizedtrigger.TriggerBuilder",
           <<P("configs",
               <<P("hudson.plugins.parameterizedtrigger.BlockableBuildTriggerConfig",
                   <<E("projects", "job-a"), P("block", <<>>)>>),
                 P("hudson.plugins.parameterizedtrigger.BlockableBuildTriggerConfig",
                   <<E("projects", "job-b"),
                     P("block",
                       <<P("buildStepFailureThreshold", <<E("name", "SUCCESS")>>)>>)>>)>>)>>)}
      [] h = "triggers" ->
        {P("hudson.triggers.SCMTrigger",
           <<E("spec", "H/5 * * * *"), E("ignorePostCommitHooks", "false")>>),
         P("hudson.triggers.TimerTrigger", <<E("spec", "@daily")>>),
         P("jenkins.triggers.ReverseBuildTrigger",
           <<E("spec", ""), E("upstreamProjects", "upstream"),
             P("threshold", <<E("name", "SUCCESS")>>)>>),
         P("com.sonyericsson.hudson.plugins.gerrit.trigger.hudsontrigger.GerritTrigger",
           <<E("spec", ""),
             P("gerritProjects",
               <<P("com.sonyericsson.hudson.plugins.gerrit.trigger.hudsontrigger.data.GerritProject",
                   <<E("compareType", "PLAIN"), E("pattern", "proj"),
                     P("branches",
                       <<P("com.sonyericsson.hudson.plugins.gerrit.trigger.hudsontrigger.data.Branch",
                           <<E("compareType", "ANT"), E("pattern", "**")>>)>>)>>)>>),
             P("triggerOnEvents",
               <<P("com.sonyericsson.hudson.plugins.gerrit.trigger.hudsontrigger.events.PluginPatchsetCreatedEvent",
                   <<E("excludeDrafts", "true"), E("excludeTrivialRebase", "false"),
                     E("excludeNoCodeChange", "true")>>),
                 P("com.sonyericsson.hudson.plugins.gerrit.trigger.hudsontrigger.events.PluginPatchsetCreatedEvent",
                   <<E("excludeDrafts", "false")>>),
                 P("com.sonyericsson.hudson.plugins.gerrit.trigger.hudsontrigger.events.PluginRefUpdatedEvent",
                   <<>>),
                 P("com.sonyericsson.hudson.plugins.gerrit.trigger.hudsontrigger.events.PluginDraftPublishedEvent",
                   <<>>)>>)>>),
         P("com.sonyericsson.hudson.plugins.gerrit.trigger.hudsontrigger.GerritTrigger",
           <<P("triggerOnEvents",
               <<P("com.sonyericsson.hudson.plugins.gerrit.trigger.hudsontrigger.events.PluginDraftPublishedEvent",
                   <<>>),
                 P("com.sonyericsson.hudson.plugins.gerrit.trigger.hudsontrigger.events.PluginPatchsetCreatedEvent",
                   <<E("excludeNoCodeChange", "true"), E("excludeDrafts", "true"),
                     E("excludeTrivialRebase", "true")>>)>>)>>)}
      [] h = "wrappers" ->
        {P("EnvInjectPasswordWrapper",
           <<E("injectGlobalPasswords", "true"), E("maskPasswordParameters", "false"),
             P("passwordEntries", <<>>)>>),
         P("hudson.plugins.build__timeout.BuildTimeoutWrapper",
           <<C("strategy", "hudson.plugins.build_timeout.impl.AbsoluteTimeOutStrategy",
               <<E("timeoutMinutes", "80")>>),
             P("operationList",
               <<P("hudson.plugins.build__timeout.operations.FailOperation", <<>>)>>)>>),
         P("hudson.plugins.ansicolor.AnsiColorBuildWrapper", <<E("colorMapName", "xterm")>>),
         P("com.cloudbees.jenkins.plugins.sshagent.SSHAgentBuildWrapper",
           <<P("credentialIds", <<E("string", "key-1"), E("string", "key-2")>>),
             E("ignoreMissing", "false")>>),
         P("org.jenkinsci.plugins.buildnamesetter.BuildNameSetter",
           <<E("template", "#${BUILD_NUMBER}")>>)}
      [] h = "publishers" ->
        {P("hudson.tasks.ArtifactArchiver",
           <<E("artifacts", "*.tgz"), E("allowEmptyArchive", "false"),
             E("onlyIfSuccessful", "true"), E("fingerprint", "false"),
             E("defaultExcludes", "true"), E("excludes", "*.o")>>),
         P("hudson.plugins.descriptionsetter.DescriptionSetterPublisher",
           <<E("regexp", "v(.*)"), E("regexpForFailed", ""), E("setForMatrix", "false"),
             E("description", "x")>>),
         P("hudson.tasks.Fingerprinter",
           <<E("targets", "*.jar"), E("recordBuildArtifacts", "true")>>),
         P("hudson.plugins.emailext.ExtendedEmailPublisher",
           <<E("recipientList", "dev@example.com"), E("replyTo", "$DEFAULT_REPLYTO"),
             E("contentType", "text/html"), E("defaultSubject", "$DEFAULT_SUBJECT"),
             E("defaultContent", "$DEFAULT_CONTENT"), E("attachBuildLog", "true"),
             E("compressBuildLog", "false"), P("attachmentsPattern", <<>>),
             E("saveOutput", "false"), E("disabled", "false"),
             E("presendScript", "$DEFAULT_PRESEND_SCRIPT"),
             P("configuredTriggers",
               <<P("hudson.plugins.emailext.plugins.trigger.FailureTrigger", <<>>),
                 P("hudson.plugins.emailext.plugins.trigger.FixedTrigger", <<>>)>>)>>),
         P("hudson.plugins.emailext.ExtendedEmailPublisher",
           <<E("contentType", "default"),
             P("configuredTriggers",
               <<P("hudson.plugins.emailext.plugins.trigger.AlwaysTrigger", <<>>)>>)>>),
         P("hudson.plugins.emailext.ExtendedEmailPublisher",
           <<P("configuredTriggers",
               <<P("hudson.plugins.emailext.plugins.trigger.SuccessTrigger", <<>>),
                 P("hudson.plugins.emailext.plugins.trigger.FirstFailureTrigger", <<>>),
                 P("hudson.plugins.emailext.plugins.trigger.FailureTrigger", <<>>)>>),
             E("saveOutput", "true")>>),
         P("hudson.plugins.emailext.ExtendedEmailPublisher",
           <<E("recipientList", "qa@example.com"), E("disabled", "true")>>),
         P("hudson.tasks.junit.JUnitResultArchiver",
           <<E("testResults", "**/*.xml"), E("keepLongStdio", "false"),
             E("healthScaleFactor", "1.0")>>),
         P("hudson.plugins.parameterizedtrigger.BuildTrigger",
           <<P("configs",
               <<P("hudson.plugins.parameterizedtrigger.BuildTriggerConfig",
                   <<P("configs", <<>>), E("projects", "downstream"),
                     E("condition", "SUCCESS"), E("triggerWithNoParameters", "true")>>)>>)>>),
         P("hudson.tasks.Mailer",
           <<E("recipients", "dev@example.com"), E("dontNotifyEveryUnstableBuild", "false"),
             E("sendToIndividuals", "true")>>),
         P("htmlpublisher.HtmlPublisher",
           <<P("reportTargets",
               <<P("htmlpublisher.HtmlPublisherTarget",
                   <<E("reportName", "Docs"), E("reportDir", "html"),
                     E("reportFiles", "index.html"), E("alwaysLinkToLastBuild", "false"),
                     E("keepAll", "true"), E("allowMissing", "false"),
                     E("wrapperName", "htmlpublisher-wrapper.html")>>)>>)>>),
         P("hudson.plugins.cobertura.CoberturaPublisher",
           <<E("coberturaReportFile", "coverage.xml"), E("onlyStable", "false"),
             P("healthyTarget",
               <<P("targets",
                   <<P("entry",
                       <<E("hudson.plugins.cobertura.targets.CoverageMetric", "METHOD"),
                         E("int", "80")>>),
                     P("entry",
                       <<E("hudson.plugins.cobertura.targets.CoverageMetric", "LINE"),
                         E("int", "80")>>)>>)>>),
             P("unhealthyTarget",
               <<P("targets",
                   <<P("entry",
                       <<E("hudson.plugins.cobertura.targets.CoverageMetric", "LINE"),
                         E("int", "70")>>)>>)>>),
             E("sourceEncoding", "ASCII")>>),
         P("jenkins.plugins.slack.SlackNotifier", <<E("room", "#ci")>>)}
      [] h = "properties" ->
        {P("com.coravy.hudson.plugins.github.GithubProjectProperty",
           <<E("projectUrl", "http://github.com/x/y")>>),
         P("hudson.model.ParametersDefinitionProperty",
           <<P("parameterDefinitions",
               <<P("hudson.model.StringParameterDefinition",
                   <<E("name", "p"), P("description", <<>>), E("defaultValue", "true")>>),
                 P("hudson.model.ChoiceParameterDefinition", <<E("name", "q")>>),
                 P("hudson.model.BooleanParameterDefinition",
                   <<E("name", "r"), E("defaultValue", "false")>>)>>)>>),
         P("hudson.model.ParametersDefinitionProperty",
           <<P("parameterDefinitions",
               <<P("hudson.model.BooleanParameterDefinition", <<E("name", "s")>>)>>)>>),
         P("com.sonyericsson.rebuild.RebuildSettings",
           <<E("autoRebuild", "false"), E("rebuildDisabled", "true")>>),
         P("hudson.plugins.copyartifact.CopyArtifactPermissionProperty",
           <<P("projectNameList", <<E("string", "job-a"), E("string", "job-b")>>)>>),
         P("jenkins.plugins.slack.SlackNotifier_-SlackJobProperty",
           <<E("teamDomain", "team"), E("room", "#ci"), E("startNotification", "false"),
             E("notifyFailure", "true"), E("notifySuccess", "true"),
             E("includeCustomMessage", "true"), E("customMessage", "hello")>>),
         P("jenkins.plugins.slack.SlackNotifier_-SlackJobProperty",
           <<E("room", "#ci"), E("notifyFailure", "false"),
             E("includeCustomMessage", "true"), P("customMessage", <<>>)>>),
         P("jenkins.plugins.slack.SlackNotifier_-SlackJobProperty",
           <<E("includeCustomMessage", "true"), E("customMessage", "built"),
             E("showCommitList", "true"), P("room", <<>>), E("token", "t")>>)}

\* items that are malformed: an unknown tag, or a known tag with an
\* unsupported child element or attribute value
MalformedItems(h) ==
    {P("org.example.UnknownPlugin", <<E("setting", "1")>>)} \cup
    CASE h = "builders" ->
        {P("hudson.tasks.Shell", <<E("command", "make"), E("unstableReturn", "2")>>),
         P("hudson.plugins.copyartifact.CopyArtifact",
           <<E("project", "upstream"), E("doNotFingerprintArtifacts", "true")>>),
         P("hudson.plugins.copyartifact.CopyArtifact",
           <<E("project", "upstream"),
             C("selector", "hudson.plugins.copyartifact.BogusSelector", <<>>)>>),
         P("org.jenkinsci.plugins.conditionalbuildstep.singlestep.SingleConditionalBuilder",
           <<C("condition", "org.jenkins_ci.plugins.run_condition.core.BooleanCondition", <<>>),
             C("buildStep", "hudson.tasks.Shell", <<E("command", "make")>>)>>),
         P("org.jenkinsci.plugins.conditionalbuildstep.singlestep.SingleConditionalBuilder",
           <<C("condition", "org.jenkins_ci.plugins.run_condition.core.AlwaysRun", <<>>),
             C("buildStep", "hudson.tasks.Shell", <<E("command", "make")>>),
             C("runner", "org.jenkins_ci.plugins.run_condition.BuildStepRunner$Unstable", <<>>)>>),
         P("hudson.plugins.parameterizedtrigger.TriggerBuilder",
           <<P("configs",
               <<P("hudson.plugins.parameterizedtrigger.BuildTriggerConfig",
                   <<E("projects", "job-a")>>)>>)>>),
         P("hudson.plugins.parameterizedtrigger.TriggerBuilder",
           <<P("configs",
               <<P("hudson.plugins.parameterizedtrigger.BlockableBuildTriggerConfig",
                   <<E("projects", "job-a"),
                     P("block", <<P("unstableThreshold", <<E("name", "ABORTED")>>)>>)>>)>>)>>),
         P("hudson.plugins.parameterizedtrigger.TriggerBuilder",
           <<P("configs",
               <<P("hudson.plugins.parameterizedtrigger.BlockableBuildTriggerConfig",
                   <<E("projects", "job-a"),
                     P("block", <<P("abortedThreshold", <<E("name", "FAILURE")>>)>>)>>)>>)>>)}
      [] h = "triggers" ->
        {P("hudson.triggers.SCMTrigger", <<E("spec", "@daily"), E("quietPeriod", "5")>>),
         P("jenkins.triggers.ReverseBuildTrigger", <<E("upstream", "x")>>),
         P("com.sonyericsson.hudson.plugins.gerrit.trigger.hudsontrigger.GerritTrigger",
           <<P("triggerOnEvents",
               <<P("com.sonyericsson.hudson.plugins.gerrit.trigger.hudsontrigger.events.PluginChangeMergedEvent",
                   <<>>)>>)>>)}
      [] h = "wrappers" ->
        {P("EnvInjectPasswordWrapper",
           <<P("passwordEntries", <<P("EnvInjectPasswordEntry", <<>>)>>)>>),
         P("hudson.plugins.build__timeout.BuildTimeoutWrapper",
           <<C("strategy", "hudson.plugins.build_timeout.impl.ElasticTimeOutStrategy", <<>>)>>),
         P("hudson.plugins.build__timeout.BuildTimeoutWrapper",
           <<P("operationList",
               <<P("hudson.plugins.build__timeout.operations.AbortOperation", <<>>)>>)>>),
         P("com.cloudbees.jenkins.plugins.sshagent.SSHAgentBuildWrapper",
           <<E("user", "key-1")>>)}
      [] h = "publishers" ->
        {P("hudson.tasks.ArtifactArchiver",
           <<E("artifacts", "*.tgz"), E("latestOnly", "false")>>),
         P("hudson.plugins.emailext.ExtendedEmailPublisher",
           <<E("contentType", "text/markdown")>>),
         P("hudson.plugins.emailext.ExtendedEmailPublisher",
           <<P("configuredTriggers",
               <<P("hudson.plugins.emailext.plugins.trigger.ScriptTrigger", <<>>)>>)>>),
         P("htmlpublisher.HtmlPublisher", <<P("reportTargets", <<>>)>>),
         P("hudson.tasks.Mailer", <<E("recipients", "x"), E("bcc", "y")>>)}
      [] h = "properties" ->
        {P("com.coravy.hudson.plugins.github.GithubProjectProperty",
           <<E("projectUrl", "http://github.com/x/y"), E("displayName", "x")>>),
         P("hudson.model.ParametersDefinitionProperty",
           <<P("parameters",
               <<P("hudson.model.StringParameterDefinition", <<E("name", "p")>>)>>)>>),
         P("com.sonyericsson.rebuild.RebuildSettings", <<E("rebuildAlways", "true")>>),
         P("hudson.plugins.copyartifact.CopyArtifactPermissionProperty",
           <<P("projectNameList", <<E("project", "job-a")>>)>>),
         P("jenkins.plugins.slack.SlackNotifier_-SlackJobProperty",
           <<E("notifyFailure", "true"), E("botUser", "false")>>)}

\* items with a part missing: no children, no text, no class attribute
BareItems(h) ==
    CASE h = "builders" ->
        {P("hudson.tasks.Shell", <<>>),
         P("hudson.plugins.copyartifact.CopyArtifact", <<P("selector", <<>>)>>),
         P("hudson.plugins.parameterizedtrigger.TriggerBuilder", <<>>),
         P("hudson.plugins.parameterizedtrigger.TriggerBuilder",
           <<P("configs",
               <<P("hudson.plugins.parameterizedtrigger.BlockableBuildTriggerConfig",
                   <<E("projects", "job-a"),
                     P("block", <<P("abortedThreshold", <<>>)>>)>>)>>)>>),
         P("org.jenkinsci.plugins.conditionalbuildstep.singlestep.SingleConditionalBuilder",
           <<P("buildStep", <<E("command", "make")>>)>>)}
      [] h = "triggers" ->
        {P("hudson.triggers.TimerTrigger", <<>>),
         P("com.sonyericsson.hudson.plugins.gerrit.trigger.hudsontrigger.GerritTrigger",
           <<P("gerritProjects",
               <<P("com.sonyericsson.hudson.plugins.gerrit.trigger.hudsontrigger.data.GerritProject",
                   <<E("pattern", "proj")>>)>>)>>)}
      [] h = "wrappers" ->
        {P("org.jenkinsci.plugins.buildnamesetter.BuildNameSetter", <<>>),
         P("hudson.plugins.build__timeout.BuildTimeoutWrapper", <<P("strategy", <<>>)>>),
         P("hudson.plugins.build__timeout.BuildTimeoutWrapper",
           <<C("strategy", "hudson.plugins.build_timeout.impl.AbsoluteTimeOutStrategy", <<>>)>>)}
      [] h = "publishers" ->
        {P("hudson.plugins.cobertura.CoberturaPublisher",
           <<P("failingTarget", <<P("targets", <<P("entry", <<E("int", "0")>>)>>)>>)>>),
         P("hudson.tasks.ArtifactArchiver", <<>>)}
      [] h = "properties" ->
        {P("hudson.plugins.copyartifact.CopyArtifactPermissionProperty",
           <<P("projectNameList", <<P("string", <<>>)>>)>>),
         P("hudson.model.ParametersDefinitionProperty", <<>>)}

Items(h) == WellFormedItems(h) \cup MalformedItems(h) \cup BareItems(h)

ContainerTag(h) ==
    CASE h = "builders" -> "builders" [] h = "triggers" -> "triggers"
      [] h = "wrappers" -> "buildWrappers" [] h = "publishers" -> "publishers"
      [] h = "properties" -> "properties"

NoMerge ==
    /\ heap = <<>> /\ base = PyNone /\ overlay = PyNone /\ result = PyNone
    /\ stack = <<>>

\* the orders in which a plain dict of coverage metrics may list its keys
HashOrders == {<<"line", "method">>, <<"method", "line">>}

Init ==
    /\ handler \in {"builders", "triggers", "wrappers", "publishers", "properties"}
    /\ \E n \in 0..MaxItems : \E items \in [1..n -> Items(handler)] :
          top = P(ContainerTag(handler), items)
    /\ idx = 1 /\ pc = "loop" /\ exc = ""
    /\ out = IF handler = "properties" THEN PropertiesResult(<<>>, <<>>, <<>>) ELSE <<>>
    /\ NoMerge

\* the items of one child put in front of the list
TookFront(r) ==
    /\ IF r.ok
       THEN out' = r.val \o out /\ idx' = idx + 1 /\ pc' = pc /\ exc' = exc
       ELSE out' = out /\ idx' = idx /\ pc' = "raised" /\ exc' = r.exc
    /\ UNCHANGED <<handler, top, heap, base, overlay, result, stack>>

\* the loop body of a container handler took the outcome r for one child
Took(r) ==
    /\ IF r.ok
       THEN out' = out \o r.val /\ idx' = idx + 1 /\ pc' = pc /\ exc' = exc
       ELSE out' = out /\ idx' = idx /\ pc' = "raised" /\ exc' = r.exc
    /\ UNCHANGED <<handler, top, heap, base, overlay, result, stack>>

Running(h) == handler = h /\ pc = "loop" /\ idx <= Len(top.children)

\* builders.append(handle_builder(child))
BuildersItem ==
    /\ Running("builders")
    /\ LET r == handle_builder(top.children[idx])
       IN Took(IF r.ok THEN Ok(<<r.val>>) ELSE r)

\* triggers.append(handle_trigger(child))
TriggersItem ==
    /\ Running("triggers")
    /\ LET r == handle_trigger(top.children[idx])
       IN Took(IF r.ok THEN Ok(<<r.val>>) ELSE r)

\* wrappers.append(handle_buildwrapper(child))
WrappersItem ==
    /\ Running("wrappers")
    /\ LET r == handle_buildwrapper(top.children[idx])
       IN Took(IF r.ok THEN Ok(<<r.val>>) ELSE r)

\* handle_publishers: try: ... except NotImplementedError: insert_rawxml(child, publishers)
PublishersItem ==
    /\ Running("publishers")
    /\ \E hashorder \in HashOrders :
          LET child == top.children[idx]
              r == publisher_item(child, hashorder)
          IN Took(IF r.ok THEN r
                  ELSE IF r.exc = NIE THEN Ok(insert_rawxml(child, <<>>))
                  ELSE r)

\* handle_properties: try: ... except NotImplementedError:
\* insert_rawxml(child, properties); out is the list result
PropertiesItem ==
    /\ Running("properties")
    /\ LET r == property_item(out, top.children[idx])
       IN IF r.ok
          THEN out' = r.val /\ idx' = idx + 1 /\ pc' = pc /\ exc' = exc
          ELSE out' = out /\ idx' = idx /\ pc' = "raised" /\ exc' = r.exc
    /\ UNCHANGED <<handler, top, heap, base, overlay, result, stack>>

\* return [[name, items]]; return result
Return ==
    /\ handler \in {"builders", "triggers", "wrappers", "publishers", "properties"}
    /\ pc = "loop" /\ idx > Len(top.children)
    /\ pc' = "done"
    /\ UNCHANGED <<handler, top, idx, out, exc, heap, base, overlay, result, stack>>

Next ==
    \/ BuildersItem \/ TriggersItem \/ WrappersItem \/ PublishersItem
    \/ PropertiesItem \/ Return

Spec == Init /\ [][Next]_vars

Children == top.children

\* the typed records the handler h makes of child when child is alone
TypedRecords(h, child) ==
    CASE h = "builders" -> {handle_builder(child)}
      [] h = "wrappers" -> {handle_buildwrapper(child)}
      [] h = "triggers" -> {handle_trigger(child)}
      [] h = "publishers" ->
            {Bind(publisher_item(child, hashorder),
                  LAMBDA items : IF Len(items) = 1 THEN Ok(items[1]) ELSE Raise("no item")) :
                hashorder \in HashOrders}

(* C1 as stated: in a publishers, builders or wrappers container of N
   children where child k is malformed and every other child is well-formed,
   the call returns without raising, the list has exactly N items, item k is
   the Fallback Value of child k, and every other item is the typed record
   its child gives when alone. *)
C1_ItemIsolation ==
    \A k \in 1..Len(Children) :
        (/\ handler \in {"publishers", "builders", "wrappers"}
         /\ Children[k] \in MalformedItems(handler)
         /\ \A j \in 1..Len(Children) :
               j # k => Children[j] \in WellFormedItems(handler))
        => /\ pc # "raised"
           /\ pc = "done" =>
                /\ Len(out) = Len(Children)
                /\ out[k] = create_rawxml(Children[k])
                /\ \A j \in 1..Len(Children) :
                      j # k => Ok(out[j]) \in TypedRecords(handler, Children[j])

(* C2 as stated: handle_builder, handle_trigger and handle_buildwrapper
   return a typed record or a Fallback Value for every item node, so no
   exception of any type escapes to the container handler. *)
C2_TotalContainment ==
    handler \in {"builders", "triggers", "wrappers"}
    => /\ pc # "raised"
       /\ \A j \in 1..Len(out) : out[j].t = "dict" /\ Len(out[j].kv) = 1

\* the item with only its first j children
Upto(item, j) == [item EXCEPT !.children = SubSeq(item.children, 1, j)]

\* the loop of the branch that container handler h takes for the item
\* raises, whether or not the exception is caught afterwards; FALSE for the
\* branches without a table lookup of their own
LoopRaises(h, item) ==
    CASE h = "builders" /\ item.tag = "hudson.plugins.copyartifact.CopyArtifact" ->
            ~builder_copyartifact(item).ok
      [] h = "publishers" /\ item.tag = "hudson.plugins.emailext.ExtendedEmailPublisher" ->
            ~publisher_email_ext(item).ok
      [] h = "triggers" /\ item.tag = "com.sonyericsson.hudson.plugins.gerrit.trigger.hudsontrigger.GerritTrigger" ->
            ~handle_trigger(item).ok \/ IsRaw(handle_trigger(item).val)
      [] OTHER -> FALSE

\* the position of the child at which that loop raises, 0 when it does not
RaisingChild(h, item) ==
    IF \A j \in 1..Len(item.children) : ~LoopRaises(h, Upto(item, j)) THEN 0
    ELSE CHOOSE j \in 1..Len(item.children) :
            /\ LoopRaises(h, Upto(item, j))
            /\ \A i \in 1..(j - 1) : ~LoopRaises(h, Upto(item, i))

\* the tags of the children whose case holds the table lookup of the branch
LookupTags(h) ==
    CASE h = "builders" -> {"selector"}
      [] h = "publishers" -> {"contentType", "configuredTriggers"}
      [] h = "triggers" -> {"triggerOnEvents"}
      [] OTHER -> {}

\* the loop raises, and at the lookup of the table: selectdict[select] (a
\* selector without class raises one line earlier), the email-ext content
\* type and trigger kind, the Gerrit event kind
LookupRaises(h, item) ==
    /\ RaisingChild(h, item) # 0
    /\ item.children[RaisingChild(h, item)].tag \in LookupTags(h)
    /\ h = "builders" => HasAttr(item.children[RaisingChild(h, item)], "class")

RECURSIVE FirstException(_)
RECURSIVE ConditionalFirstException(_, _)

\* the first exception raised while the conditional builder handles its
\* children from position j on: "lookup" for the condition table, the nested
\* step's own first exception for a buildStep, "other", or "none"
ConditionalFirstException(builder, j) ==
    IF j > Len(builder.children) THEN "none"
    ELSE LET item == builder.children[j] IN
         CASE item.tag = "condition" ->
                IF ~HasAttr(item, "class") THEN "other"
                ELSE IF conditional_setting(Dict(<<>>), item).ok
                THEN ConditionalFirstException(builder, j + 1)
                ELSE "lookup"
           [] item.tag = "runner" ->
                IF conditional_setting(Dict(<<>>), item).ok
                THEN ConditionalFirstException(builder, j + 1)
                ELSE "other"
           [] item.tag = "buildStep" ->
                IF ~HasAttr(item, "class") THEN "other"
                ELSE IF FirstException(promote_class(item)) # "none"
                THEN FirstException(promote_class(item))
                ELSE ConditionalFirstException(builder, j + 1)
           [] OTHER -> "other"

\* where the first exception of handle_builder(item) is raised, nested calls
\* included: "lookup" when a table lookup fails, "other" for any other raise
\* (an unknown builder tag among them), "none" when nothing is raised
FirstException(item) ==
    CASE item.tag = "org.jenkinsci.plugins.conditionalbuildstep.singlestep.SingleConditionalBuilder" ->
            ConditionalFirstException(item, 1)
      [] item.tag = "hudson.plugins.copyartifact.CopyArtifact" ->
            IF RaisingChild("builders", item) = 0 THEN "none"
            ELSE IF LookupRaises("builders", item) THEN "lookup" ELSE "other"
      [] item.tag \in {"hudson.tasks.Shell",
                       "hudson.plugins.parameterizedtrigger.TriggerBuilder"} ->
            IF handle_builder(item).ok /\ ~IsRaw(handle_builder(item).val)
            THEN "none" ELSE "other"
      [] OTHER -> "other"

\* the item, given to the item handler of container handler h, holds a
\* selector value that is no entry of its lookup table: the first exception
\* of the handler is raised by the failed lookup
HasUnknownSelector(h, item) ==
    CASE h = "builders" -> FirstException(item) = "lookup"
      [] h \in {"publishers", "triggers"} -> LookupRaises(h, item)
      [] OTHER -> FALSE

(* C3 as stated: an item with a selector value that is no entry of its
   lookup table becomes a Fallback Value, and no other kind of error is
   raised; in particular a CopyArtifact builder whose selector class is not
   in the table yields a Fallback Value. *)
C3_UnknownSelectorFallsBack ==
    \A k \in 1..Len(Children) :
        HasUnknownSelector(handler, Children[k])
        => /\ ~(pc = "raised" /\ idx = k)
           /\ idx = k + 1 => (out # <<>> /\ IsRaw(Last(out)))

\* the label and the exclusion flags the Gerrit event schema gives an event
GerritEventLabel(tag) ==
    CASE tag = "com.sonyericsson.hudson.plugins.gerrit.trigger.hudsontrigger.events.PluginRefUpdatedEvent" ->
            "ref-updated-event"
      [] tag = "com.sonyericsson.hudson.plugins.gerrit.trigger.hudsontrigger.events.PluginDraftPublishedEvent" ->
            "draft-published-event"
      [] tag = "com.sonyericsson.hudson.plugins.gerrit.trigger.hudsontrigger.events.PluginPatchsetCreatedEvent" ->
            "patchset-created-event"
      [] OTHER -> "no label"

GerritFlagKey(tag) ==
    CASE tag = "excludeDrafts" -> "exclude-drafts"
      [] tag = "excludeTrivialRebase" -> "exclude-trivial-rebase"
      [] tag = "excludeNoCodeChange" -> "exclude-no-code-change"

\* the keys of the exclusion flags of the event whose text is 'true'
TrueFlags(eventChild) ==
    {GerritFlagKey(eventChild.children[j].tag) :
        j \in {i \in 1..Len(eventChild.children) :
                  /\ eventChild.children[i].tag \in
                        {"excludeDrafts", "excludeTrivialRebase", "excludeNoCodeChange"}
                  /\ eventChild.children[i].text = Str("true")}}

\* the typed Gerrit triggers of the output, each with its source event nodes
\* and its emitted events: <<event nodes, events>>
GerritEventLists ==
    IF handler # "triggers" THEN {}
    ELSE {<<Find(Children[k], "triggerOnEvents").children,
            Get(Get(out[k], "gerrit"), "trigger-on").items>> :
            k \in {j \in 1..Len(out) :
                      /\ Children[j].tag = "com.sonyericsson.hudson.plugins.gerrit.trigger.hudsontrigger.GerritTrigger"
                      /\ HasChild(Children[j], "triggerOnEvents")
                      /\ ~IsRaw(out[j])}}

(* C14: for each child of triggerOnEvents, handle_trigger emits the event as
   a bare label string when no exclusion flag of the event is 'true', and as
   a one-key mapping {label: flags} holding exactly the flags whose text is
   'true' when at least one is; the events list has one entry per event
   child, in document order, and an empty flags mapping is never emitted. *)
C14_GerritEvents ==
    \A se \in GerritEventLists :
        /\ Len(se[2]) = Len(se[1])
        /\ \A i \in 1..Len(se[1]) :
              IF TrueFlags(se[1][i]) = {}
              THEN se[2][i] = Str(GerritEventLabel(se[1][i].tag))
              ELSE /\ se[2][i].t = "dict"
                   /\ Len(se[2][i].kv) = 1
                   /\ se[2][i].kv[1][1] = GerritEventLabel(se[1][i].tag)
                   /\ se[2][i].kv[1][2].t = "dict"
                   /\ {se[2][i].kv[1][2].kv[j][1] : j \in 1..Len(se[2][i].kv[1][2].kv)}
                         = TrueFlags(se[1][i])
                   /\ \A j \in 1..Len(se[2][i].kv[1][2].kv) :
                         se[2][i].kv[1][2].kv[j][2] = Bool(TRUE)

\* a Gerrit trigger came out with a nested event, a bare patchset event whose
\* only flag is 'false', and a bare event that has no flags
C14_Witness ==
    \E se \in GerritEventLists :
        /\ \E i \in 1..Len(se[1]) : se[2][i].t = "dict" /\ Cardinality(TrueFlags(se[1][i])) = 2
        /\ \E i \in 1..Len(se[1]) :
              /\ se[2][i] = Str("patchset-created-event")
              /\ se[1][i].children # <<>>
        /\ \E i \in 1..Len(se[1]) : se[2][i] = Str("ref-updated-event")

\* the threshold entries of a coverage publisher in document order, each as
\* <<metric name, field>>
CoberturaEntries(child) ==
    LET Field(tag) == CASE tag = "healthyTarget" -> "healthy"
                        [] tag = "unhealthyTarget" -> "unhealthy"
                        [] tag = "failingTarget" -> "failing"
        Of(param) ==
            Flatten([j \in 1..Len(param.children) |->
                IF param.children[j].tag # "targets" THEN <<>>
                ELSE [i \in 1..Len(param.children[j].children) |->
                        <<Lower(param.children[j].children[i].children[1].text.s),
                          Field(param.tag)>>]])
    IN Flatten([j \in 1..Len(child.children) |->
           IF child.children[j].tag \in {"healthyTarget", "unhealthyTarget", "failingTarget"}
           THEN Of(child.children[j]) ELSE <<>>])

\* the metric names of the entries in the order of their first occurrence
FirstMetrics(entries) ==
    LET firsts == {i \in 1..Len(entries) :
                      \A j \in 1..(i-1) : entries[j][1] # entries[i][1]}
        f[i \in 0..Len(entries)] ==
            IF i = 0 THEN <<>>
            ELSE IF i \in firsts THEN Append(f[i-1], entries[i][1]) ELSE f[i-1]
    IN f[Len(entries)]

\* the publishers child that the last pass of the loop translated, when it
\* is a coverage publisher with thresholds that came out typed
LastCobertura ==
    IF /\ handler = "publishers" /\ idx > 1 /\ out # <<>>
       /\ Children[idx-1].tag = "hudson.plugins.cobertura.CoberturaPublisher"
       /\ ~IsRaw(Last(out))
       /\ HasKey(Get(Last(out), "cobertura"), "targets")
    THEN {[entries |-> CoberturaEntries(Children[idx-1]),
           targets |-> Get(Get(Last(out), "cobertura"), "targets").items]}
    ELSE {}

(* C15 as stated: cobertura['targets'] is one list with exactly one record
   per distinct metric name; each record holds every field (healthy,
   unhealthy, failing) that a threshold element contributed for the metric;
   and the records appear in the order in which the metric names were first
   encountered in the source. *)
C15_TargetsInFirstSeenOrder ==
    \A c \in LastCobertura :
        /\ Len(c.targets) = Len(FirstMetrics(c.entries))
        /\ \A j \in 1..Len(c.targets) :
              /\ Len(c.targets[j].kv) = 1
              /\ c.targets[j].kv[1][1] = FirstMetrics(c.entries)[j]
              /\ {c.targets[j].kv[1][2].kv[i][1] : i \in 1..Len(c.targets[j].kv[1][2].kv)}
                    = {c.entries[i][2] : i \in {e \in 1..Len(c.entries) :
                                                   c.entries[e][1] = c.targets[j].kv[1][1]}}

\* the output items the container handler h makes of child when the child
\* is translated alone, one sequence per way the translation can go
AloneItems(h, child) ==
    LET One(r) == IF r.ok THEN {<<r.val>>} ELSE {}
        Caught(r) == IF r.ok THEN {r.val}
                     ELSE IF r.exc = NIE THEN {<<create_rawxml(child)>>} ELSE {}
    IN CASE h = "builders" -> One(handle_builder(child))
         [] h = "triggers" -> One(handle_trigger(child))
         [] h = "wrappers" -> One(handle_buildwrapper(child))
         [] h = "publishers" ->
               UNION {Caught(publisher_item(child, hashorder)) : hashorder \in HashOrders}

\* the children the loop has translated so far
Visited == 1..(idx - 1)

\* the parameter definitions of the visited properties children, in document
\* order
VisitedParameterDefs ==
    Flatten([k \in Visited |->
        IF Children[k].tag = "hudson.model.ParametersDefinitionProperty"
           /\ property_item(PropertiesResult(<<>>, <<>>, <<>>), Children[k]).ok
           /\ Children[k].children # <<>>
           /\ Children[k].children[1].tag = "parameterDefinitions"
        THEN Children[k].children[1].children
        ELSE <<>>])

(* C16: in the lists returned by handle_builders, handle_triggers,
   handle_buildwrappers and handle_publishers, and in the parameters list of
   handle_properties, the output items are in the document order of the
   source children they come from, typed records and Fallback Values alike:
   the list is the concatenation, in document order, of what each visited
   child gives alone, and a Fallback Value is at the position of its source
   child. *)
C16_OrderPreserved ==
    /\ handler \in {"builders", "triggers", "wrappers", "publishers"}
       => \E segs \in [Visited -> UNION {AloneItems(handler, Children[k]) : k \in Visited}] :
             /\ \A k \in Visited : segs[k] \in AloneItems(handler, Children[k])
             /\ out = Flatten(segs)
    /\ handler = "properties"
       => /\ Len(ParametersOf(out)) = Len(VisitedParameterDefs)
          /\ \A j \in 1..Len(VisitedParameterDefs) :
                CASE VisitedParameterDefs[j].tag = "hudson.model.StringParameterDefinition" ->
                        ParametersOf(out)[j].kv[1][1] = "string"
                  [] VisitedParameterDefs[j].tag = "hudson.model.BooleanParameterDefinition" ->
                        ParametersOf(out)[j].kv[1][1] = "bool"
                  [] OTHER ->
                        ParametersOf(out)[j] = create_rawxml(VisitedParameterDefs[j])

\* handle_properties returned a parameters list of four items from two
\* property nodes, the Fallback Value second, between typed records
C16_Witness ==
    /\ handler = "properties" /\ pc = "done"
    /\ Len(ParametersOf(out)) = 4
    /\ ~IsRaw(ParametersOf(out)[1]) /\ IsRaw(ParametersOf(out)[2])
    /\ ~IsRaw(ParametersOf(out)[3]) /\ ~IsRaw(ParametersOf(out)[4])
    /\ ParametersOf(out)[4].kv[1][2].kv[1][2] = Str("s")

(* C17 as stated: every direct child of a publishers, triggers, builders or
   wrappers container yields exactly one output item, typed or Fallback
   Value; and inside a recognised item a child element whose tag the handler
   does not know makes the item a Fallback Value (here: a setting of a Gerrit
   trigger other than gerritProjects and triggerOnEvents). *)
C17_NoSilentDrop ==
    handler \in {"publishers", "triggers", "builders", "wrappers"}
    => /\ Len(out) = idx - 1
       /\ \A k \in Visited :
             (/\ handler = "triggers"
              /\ Children[k].tag = "com.sonyericsson.hudson.plugins.gerrit.trigger.hudsontrigger.GerritTrigger"
              /\ \E j \in 1..Len(Children[k].children) :
                    Children[k].children[j].tag \notin {"gerritProjects", "triggerOnEvents"})
             => out[k] = create_rawxml(Children[k])

\* the visited conditional builders whose condition and runner are
\* supported and whose only other child is a nested <buildStep class=C>, each
\* as <<the node with tag C and no 'class' attribute, the output record>>
ConditionalSteps ==
    IF handler # "builders" THEN {}
    ELSE {<<Node(Attr(Find(Children[k], "buildStep"), "class"),
                 SelectSeq(Find(Children[k], "buildStep").attrib,
                           LAMBDA a : a[1] # "class"),
                 Find(Children[k], "buildStep").text,
                 Find(Children[k], "buildStep").tail,
                 Find(Children[k], "buildStep").children),
            out[k]>> :
            k \in {j \in Visited :
                /\ Children[j].tag = "org.jenkinsci.plugins.conditionalbuildstep.singlestep.SingleConditionalBuilder"
                /\ Len(SelectSeq(Children[j].children, LAMBDA c : c.tag = "buildStep")) = 1
                /\ HasAttr(Find(Children[j], "buildStep"), "class")
                /\ \A i \in 1..Len(Children[j].children) :
                      Children[j].children[i].tag # "buildStep"
                      => conditional_setting(Dict(<<>>), Children[j].children[i]).ok}}

\* the builder tags handle_builder has a branch for
KnownBuilders ==
    {"hudson.plugins.copyartifact.CopyArtifact", "hudson.tasks.Shell",
     "org.jenkinsci.plugins.conditionalbuildstep.singlestep.SingleConditionalBuilder",
     "hudson.plugins.parameterizedtrigger.TriggerBuilder"}

(* C19: for a SingleConditionalBuilder whose condition and runner are
   supported, handle_builder returns a typed {'conditional-step': ...} record
   and not a Fallback Value; its 'steps' list holds exactly one item: the
   Fallback Value built from a node whose tag is C and which has no 'class'
   attribute when the nested <buildStep class=C> is an unsupported builder,
   and the record handle_builder returns for that step as a top-level builder
   when it is supported. *)
C19_InnermostFallback ==
    \A sr \in ConditionalSteps :
        /\ ~IsRaw(sr[2])
        /\ sr[2].kv[1][1] = "conditional-step"
        /\ HasKey(sr[2].kv[1][2], "steps")
        /\ Len(Get(sr[2].kv[1][2], "steps").items) = 1
        /\ Get(sr[2].kv[1][2], "steps").items[1] = handle_builder(sr[1]).val
        /\ sr[1].tag \notin KnownBuilders
           => Get(sr[2].kv[1][2], "steps").items[1] = create_rawxml(sr[1])

\* a conditional step came out typed with the Fallback Value of its nested
\* unknown step inside, and another with a typed nested shell step
C19_Witness ==
    /\ pc = "done"
    /\ \E sr \in ConditionalSteps :
          /\ sr[1].tag = "org.example.UnknownPlugin"
          /\ IsRaw(Get(sr[2].kv[1][2], "steps").items[1])
    /\ \E sr \in ConditionalSteps :
          Get(sr[2].kv[1][2], "steps").items[1] = Dict(<< <<"shell", Str("make")>> >>)

\* what a ParametersDefinitionProperty child contributes: its typed
\* parameters and the Fallback Values of its unsupported definitions, or one
\* Fallback Value of the child when the child itself is unsupported
ParameterItems(child) ==
    IF handle_parameters_property(child).ok
    THEN handle_parameters_property(child).val
    ELSE <<create_rawxml(child)>>

\* what any other property child contributes to the properties list
OtherPropertyItems(child) ==
    IF property_item(PropertiesResult(<<>>, <<>>, <<>>), child).ok
    THEN PropertiesOf(property_item(PropertiesResult(<<>>, <<>>, <<>>), child).val)
    ELSE <<>>

(* C21 as stated: handle_properties returns ['properties', P] and
   ['parameters', Q] as its first two entries, also when P or Q is empty;
   every item that comes from a ParametersDefinitionProperty child, the
   Fallback Value of an unsupported child included, is in Q, and every item
   that comes from any other property child is in P. *)
C21_TwoSections ==
    (handler = "properties" /\ pc = "done")
    => /\ Len(out.items) >= 2
       /\ out.items[1].items[1] = Str("properties")
       /\ out.items[2].items[1] = Str("parameters")
       /\ ParametersOf(out) =
             Flatten([k \in 1..Len(Children) |->
                IF Children[k].tag = "hudson.model.ParametersDefinitionProperty"
                THEN ParameterItems(Children[k]) ELSE <<>>])
       /\ PropertiesOf(out) =
             Flatten([k \in 1..Len(Children) |->
                IF Children[k].tag = "hudson.model.ParametersDefinitionProperty"
                THEN <<>> ELSE OtherPropertyItems(Children[k])])

\* v is a string, a boolean, a mapping or a sequence of such values (a
\* Fallback Value is a mapping that holds a string): not None, not an integer
RECURSIVE IsOutputValue(_)
IsOutputValue(v) ==
    CASE v.t \in {"str", "bool"} -> TRUE
      [] v.t = "dict" -> \A j \in 1..Len(v.kv) : IsOutputValue(v.kv[j][2])
      [] v.t = "list" -> \A j \in 1..Len(v.items) : IsOutputValue(v.items[j])
      [] OTHER -> FALSE

(* C22 as stated: every value in the output of a handler, at any depth, is a
   string, a boolean, an integer rendered as a string, an ordered mapping, a
   sequence or a Fallback Value; None and native integers are never
   emitted. *)
C22_OutputValueTypes ==
    IF handler = "properties" THEN IsOutputValue(out)
    ELSE \A j \in 1..Len(out) : IsOutputValue(out[j])

SlackTag == "jenkins.plugins.slack.SlackNotifier_-SlackJobProperty"

\* c is one of the ten notification flags and its text is 'true'
SlackFlagTrue(c) == HasKey(known_slack_properties, c.tag) /\ c.text = Str("true")

AnySlackFlagTrue(child) ==
    \E j \in 1..Len(child.children) : SlackFlagTrue(child.children[j])

\* every child of the SlackJobProperty is an element the handler knows
SlackRecognised(child) ==
    \A j \in 1..Len(child.children) :
        \/ HasKey(known_slack_properties, child.children[j].tag)
        \/ child.children[j].tag \in
              {"includeCustomMessage", "customMessage", "room", "teamDomain", "token"}

\* the text of the last child with this tag, or none when there is no such child
LastText(child, tag, none) ==
    IF \E j \in 1..Len(child.children) : child.children[j].tag = tag
    THEN child.children[CHOOSE j \in 1..Len(child.children) :
            /\ child.children[j].tag = tag
            /\ \A i \in (j + 1)..Len(child.children) : child.children[i].tag # tag].text
    ELSE none

SlackCustomEnabled(child) == LastText(child, "includeCustomMessage", PyNone) = Str("true")

\* the keys that the first n children give, each at the place of the first
\* child that gives it; withMessage: the custom message counts as a child's key
SlackKeys(child, n, withMessage) ==
    LET keys[i \in 0..n] ==
            IF i = 0 THEN Dict(<<>>)
            ELSE CASE SlackFlagTrue(child.children[i]) ->
                        Put(keys[i - 1],
                            Get(known_slack_properties, child.children[i].tag), Bool(TRUE))
                   [] child.children[i].tag = "room" /\ Truthy(child.children[i].text) ->
                        Put(keys[i - 1], "room", child.children[i].text)
                   [] /\ withMessage /\ SlackCustomEnabled(child)
                      /\ child.children[i].tag = "customMessage" ->
                        Put(keys[i - 1], "custom-message",
                            LastText(child, "customMessage", Str("")))
                   [] OTHER -> keys[i - 1]
    IN keys[n]

\* the entries after ['properties', P] and ['parameters', Q]
SlackEntriesOf(res) == SubSeq(res.items, 3, Len(res.items))

SlackEntry(mapping) ==
    List(<<Str("slack"), Dict(<< <<"enabled", Bool(TRUE)>> >> \o mapping.kv)>>)

(* C23 as stated: handle_properties appends ['slack', mapping] iff at least
   one of the ten notification flags of the SlackJobProperty child is 'true';
   'enabled': True is the first key and the other keys follow in source
   order; a SlackJobProperty adds no item to the properties list. *)
C23_Original ==
    (handler = "properties" /\ pc = "done")
    => /\ SlackEntriesOf(out) =
             Flatten([k \in 1..Len(Children) |->
                IF Children[k].tag = SlackTag /\ AnySlackFlagTrue(Children[k])
                THEN <<SlackEntry(SlackKeys(Children[k], Len(Children[k].children), TRUE))>>
                ELSE <<>>])
       /\ PropertiesOf(out) =
             Flatten([k \in 1..Len(Children) |->
                IF Children[k].tag = SlackTag THEN <<>>
                ELSE OtherPropertyItems(Children[k])])

(* C23, amended: for a SlackJobProperty child whose children are all
   recognised, ['slack', mapping] is appended iff at least one of the ten
   flags is 'true'; 'enabled': True is the first key, the room and the true
   flags follow in source order, and 'custom-message' is the last key
   wherever the customMessage element stands; such a child adds nothing to
   the properties list.  A SlackJobProperty with an unrecognised child adds
   no 'slack' entry, whatever its flags, and one Fallback Value to the
   properties list. *)
C23_SlackEntry ==
    (handler = "properties" /\ pc = "done")
    => /\ SlackEntriesOf(out) =
             Flatten([k \in 1..Len(Children) |->
                IF /\ Children[k].tag = SlackTag /\ SlackRecognised(Children[k])
                   /\ AnySlackFlagTrue(Children[k])
                THEN <<SlackEntry(
                        IF SlackCustomEnabled(Children[k])
                        THEN Put(SlackKeys(Children[k], Len(Children[k].children), FALSE),
                                 "custom-message",
                                 LastText(Children[k], "customMessage", Str("")))
                        ELSE SlackKeys(Children[k], Len(Children[k].children), FALSE))>>
                ELSE <<>>])
       /\ PropertiesOf(out) =
             Flatten([k \in 1..Len(Children) |->
                IF Children[k].tag # SlackTag THEN OtherPropertyItems(Children[k])
                ELSE IF SlackRecognised(Children[k]) THEN <<>>
                ELSE <<create_rawxml(Children[k])>>])

\* a slack entry came out with 'custom-message' last although the
\* customMessage element stands before the flag that is 'true'
C23_Witness ==
    /\ handler = "properties" /\ pc = "done"
    /\ Len(Children) = 1 /\ Children[1].tag = SlackTag
    /\ Children[1].children[2].tag = "customMessage"
    /\ Children[1].children[3].tag = "showCommitList"
    /\ SlackEntriesOf(out) =
          <<List(<<Str("slack"),
                   Dict(<< <<"enabled", Bool(TRUE)>>,
                           <<"show-commit-list", Bool(TRUE)>>,
                           <<"custom-message", Str("built")>> >>)>>)>>
    /\ PropertiesOf(out) = <<>>

EmailExtTag == "hudson.plugins.emailext.ExtendedEmailPublisher"

\* the visited email-ext items that were translated, in document order
EmailExtItems ==
    IF handler # "publishers" THEN <<>>
    ELSE SelectSeq(SubSeq(Children, 1, idx - 1),
                   LAMBDA child : child.tag = EmailExtTag /\ publisher_email_ext(child).ok)

\* the email-ext records of the output, in output order
EmailExtRecords ==
    IF handler # "publishers" THEN <<>>
    ELSE SelectSeq(out, LAMBDA item : HasKey(item, "email-ext"))

\* a trigger of this kind is among the children of the item's
\* configuredTriggers
HasEmailTrigger(item, kind) ==
    /\ HasChild(item, "configuredTriggers")
    /\ \E j \in 1..Len(Find(item, "configuredTriggers").children) :
          Find(item, "configuredTriggers").children[j].tag
              = "hudson.plugins.emailext.plugins.trigger." \o kind

EmailTriggerKinds ==
    {"AlwaysTrigger", "UnstableTrigger", "FirstFailureTrigger", "NotBuiltTrigger",
     "AbortedTrigger", "RegressionTrigger", "SecondFailureTrigger",
     "ImprovementTrigger", "StillFailingTrigger", "SuccessTrigger", "FixedTrigger",
     "StillUnstableTrigger", "PreBuildTrigger"}

(* C24: for a translated ExtendedEmailPublisher item with a configuredTriggers
   element the record has 'failure', and it is True iff a FailureTrigger is
   among the children of configuredTriggers, at any position; every other
   recognised trigger kind has its own key, True, in the record iff a trigger
   of that kind is there; without configuredTriggers the record has no
   'failure' key. *)
C24_FailureFlip ==
    /\ Len(EmailExtRecords) = Len(EmailExtItems)
    /\ \A j \in 1..Len(EmailExtItems) :
          /\ HasKey(Get(EmailExtRecords[j], "email-ext"), "failure")
                = HasChild(EmailExtItems[j], "configuredTriggers")
          /\ HasChild(EmailExtItems[j], "configuredTriggers")
                => Get(Get(EmailExtRecords[j], "email-ext"), "failure")
                      = Bool(HasEmailTrigger(EmailExtItems[j], "FailureTrigger"))
          /\ \A kind \in EmailTriggerKinds :
                /\ HasKey(Get(EmailExtRecords[j], "email-ext"),
                          Get(email_trigger_keys, kind))
                      = HasEmailTrigger(EmailExtItems[j], kind)
                /\ HasEmailTrigger(EmailExtItems[j], kind)
                      => Get(Get(EmailExtRecords[j], "email-ext"),
                             Get(email_trigger_keys, kind)) = Bool(TRUE)

\* two records came out: one whose FailureTrigger is the last of three
\* triggers, with 'failure' True, and one without configuredTriggers
C24_Witness ==
    /\ handler = "publishers" /\ pc = "done"
    /\ Len(EmailExtItems) = 2 /\ Len(EmailExtRecords) = 2
    /\ HasEmailTrigger(EmailExtItems[1], "FailureTrigger")
    /\ Find(EmailExtItems[1], "configuredTriggers").children[1].tag
          = "hudson.plugins.emailext.plugins.trigger.SuccessTrigger"
    /\ Get(Get(EmailExtRecords[1], "email-ext"), "failure") = Bool(TRUE)
    /\ Get(Get(EmailExtRecords[1], "email-ext"), "first-failure") = Bool(TRUE)
    /\ ~HasChild(EmailExtItems[2], "configuredTriggers")
    /\ ~HasKey(Get(EmailExtRecords[2], "email-ext"), "failure")

TriggerBuilderTag == "hudson.plugins.parameterizedtrigger.TriggerBuilder"

\* the configurations of a trigger builder
TriggerConfigsOf(item) ==
    IF item.tag = TriggerBuilderTag /\ HasChild(item, "configs")
    THEN Find(item, "configs").children ELSE <<>>

\* a threshold the handler supports: one of the three tags, and a name that
\* is one of the four values when lower-cased
SupportedThreshold(threshold) ==
    /\ threshold.tag \in {"buildStepFailureThreshold", "unstableThreshold", "failureThreshold"}
    /\ HasChild(threshold, "name")
    /\ Lower(FindText(threshold, "name").s) \in {"never", "success", "unstable", "failure"}

\* some <block> of the trigger builder holds a threshold with another tag or
\* another value
HasUnsupportedThreshold(item) ==
    \E c \in 1..Len(TriggerConfigsOf(item)) :
        \E b \in 1..Len(TriggerConfigsOf(item)[c].children) :
            /\ TriggerConfigsOf(item)[c].children[b].tag = "block"
            /\ \E t \in 1..Len(TriggerConfigsOf(item)[c].children[b].children) :
                  ~SupportedThreshold(TriggerConfigsOf(item)[c].children[b].children[t])

\* 'never' unless the block has a threshold child with this tag, then the
\* lower-cased name of the last such child
ThresholdValue(block, tag) ==
    IF ~HasChild(block, tag) THEN Str("never")
    ELSE Str(Lower(FindText(
            block.children[CHOOSE j \in 1..Len(block.children) :
                /\ block.children[j].tag = tag
                /\ \A i \in (j + 1)..Len(block.children) : block.children[i].tag # tag],
            "name").s))

(* C25 as stated: for every BlockableBuildTriggerConfig with a <block> child
   handle_builder emits 'block': True and 'block-thresholds' with exactly the
   keys build-step-failure-threshold, unstable-threshold, failure-threshold
   in that order, each 'never' unless the threshold child is present and then
   its lower-cased name; any other threshold tag or value makes the whole
   trigger builder one Fallback Value. *)
C25_BlockThresholds ==
    handler = "builders"
    => /\ pc = "raised" => ~HasUnsupportedThreshold(Children[idx])
       /\ \A k \in 1..Len(out) :
             IF HasUnsupportedThreshold(Children[k])
             THEN out[k] = create_rawxml(Children[k])
             ELSE (Children[k].tag = TriggerBuilderTag /\ ~IsRaw(out[k]))
                  => \A c \in 1..Len(TriggerConfigsOf(Children[k])) :
                        HasChild(TriggerConfigsOf(Children[k])[c], "block")
                        => /\ Get(Get(out[k], "trigger-builds").items[c], "block") = Bool(TRUE)
                           /\ Get(Get(out[k], "trigger-builds").items[c], "block-thresholds")
                                 = Dict(<< <<"build-step-failure-threshold",
                                             ThresholdValue(Find(TriggerConfigsOf(Children[k])[c], "block"),
                                                            "buildStepFailureThreshold")>>,
                                           <<"unstable-threshold",
                                             ThresholdValue(Find(TriggerConfigsOf(Children[k])[c], "block"),
                                                            "unstableThreshold")>>,
                                           <<"failure-threshold",
                                             ThresholdValue(Find(TriggerConfigsOf(Children[k])[c], "block"),
                                                            "failureThreshold")>> >>)

(* C26 as stated: whenever handle_builder falls back for a
   SingleConditionalBuilder item because one of its direct children is
   unsupported, before or after the <buildStep> child, the Fallback Value is
   the serialization of the whole SingleConditionalBuilder node. *)
C26_FallbackWrapsConditional ==
    handler = "builders"
    => \A k \in 1..Len(out) :
          (/\ Children[k].tag =
                "org.jenkinsci.plugins.conditionalbuildstep.singlestep.SingleConditionalBuilder"
           /\ IsRaw(out[k]))
          => out[k] = create_rawxml(Children[k])

----------------------------------------------------------------------------
(* SpecLeaf: one call of a leaf handler or of handle_parameters_property *)

TextLeaves ==
    {"description", "combinationFilter", "assignedNode", "displayName",
     "quietPeriod", "scmCheckoutRetryCount", "customWorkspace"}
FlagLeaves ==
    {"disabled", "blockBuildWhenDownstreamBuilding",
     "blockBuildWhenUpstreamBuilding", "concurrentBuild"}
SilentLeaves == {"keepDependencies", "canRoam"}

LeafTexts == {PyNone, Str(""), Str("true"), Str("false"), Str("build it"), Str("5")}

\* <name>, <description>, <defaultValue> of one parameter definition
ParameterDefs ==
    {P(tag, <<E("name", "p"),
              Node("description", <<>>, description, PyNone, <<>>),
              Node("defaultValue", <<>>, default, PyNone, <<>>)>>) :
        tag \in {"hudson.model.StringParameterDefinition",
                 "hudson.model.BooleanParameterDefinition",
                 "hudson.model.ChoiceParameterDefinition"},
        description \in {PyNone, Str("build it")},
        default \in LeafTexts}

InitLeaf ==
    /\ \/ /\ handler \in TextLeaves \cup FlagLeaves \cup SilentLeaves
          /\ \E text \in LeafTexts, tail \in {PyNone, Str("\n  ")} :
                top = Node(handler, <<>>, text, tail, <<>>)
       \/ /\ handler = "hudson.model.ParametersDefinitionProperty"
          /\ \E n \in 0..MaxItems : \E defs \in [1..n -> ParameterDefs] :
             \E tag \in {"parameterDefinitions", "parameters"} :
                top = P(handler, IF n = 0 /\ tag = "parameters" THEN <<>>
                                 ELSE <<P(tag, defs)>>)
    /\ idx = 1 /\ out = PyNone /\ pc = "call" /\ exc = ""
    /\ NoMerge

\* the handler the root walker finds for the tag: 'handle_' + tag.lower()
LeafHandler(tag, node) ==
    CASE tag = "description" -> handle_description(node)
      [] tag = "keepDependencies" -> handle_keepdependencies(node)
      [] tag = "canRoam" -> handle_canroam(node)
      [] tag = "disabled" -> handle_disabled(node)
      [] tag = "blockBuildWhenDownstreamBuilding" ->
            handle_blockbuildwhendownstreambuilding(node)
      [] tag = "blockBuildWhenUpstreamBuilding" ->
            handle_blockbuildwhenupstreambuilding(node)
      [] tag = "concurrentBuild" -> handle_concurrentbuild(node)
      [] tag = "combinationFilter" -> handle_combinationfilter(node)
      [] tag = "assignedNode" -> handle_assignednode(node)
      [] tag = "displayName" -> handle_displayname(node)
      [] tag = "quietPeriod" -> handle_quietperiod(node)
      [] tag = "scmCheckoutRetryCount" -> handle_scmcheckoutretrycount(node)
      [] tag = "customWorkspace" -> handle_customworkspace(node)

\* a leaf handler returns
CallLeaf ==
    /\ pc = "call"
    /\ handler \in TextLeaves \cup FlagLeaves \cup SilentLeaves
    /\ out' = LeafHandler(handler, top)
    /\ pc' = "done"
    /\ UNCHANGED <<handler, top, idx, exc, heap, base, overlay, result, stack>>

\* handle_parameters_property returns or raises
CallParameters ==
    /\ pc = "call"
    /\ handler = "hudson.model.ParametersDefinitionProperty"
    /\ LET Outcome(r) ==
              IF r.ok THEN out' = List(r.val) /\ pc' = "done" /\ exc' = exc
              ELSE out' = out /\ pc' = "raised" /\ exc' = r.exc
       IN Outcome(handle_parameters_property(top))
    /\ UNCHANGED <<handler, top, idx, heap, base, overlay, result, stack>>

NextLeaf == CallLeaf \/ CallParameters

SpecLeaf == InitLeaf /\ [][NextLeaf]_vars

\* the value of the single entry [[key, value]] a leaf handler returned
EntryValue == out.items[1].items[2]

\* the typed parameter definitions of the call, each setting with its source
\* text and the value it was given: <<text, value>>
SettingPairs ==
    IF handler # "hudson.model.ParametersDefinitionProperty" \/ pc # "done"
       \/ top.children = <<>>
    THEN {}
    ELSE LET defs == top.children[1].children
         IN {<<defs[j].children[i].text, out.items[j].kv[1][2].kv[i][2]>> :
                <<j, i>> \in {ji \in (1..Len(defs)) \X (1..3) :
                                 defs[ji[1]].tag # "hudson.model.ChoiceParameterDefinition"}}

(* C8 as stated: wherever leaf text becomes an output value (the text leaf
   handlers and every setting of a string or bool parameter definition), a
   source node with missing or empty text yields the empty string, never
   None. *)
C8_BlankIsEmptyString ==
    /\ (pc = "done" /\ handler \in TextLeaves /\ top.text \in {PyNone, Str("")})
       => EntryValue = Str("")
    /\ \A sv \in SettingPairs : sv[1] \in {PyNone, Str("")} => sv[2] = Str("")

(* C9 as stated: a source leaf whose text is exactly 'true' or 'false'
   becomes the boolean True or False, never the string; for the flag leaf
   handlers, for every parameter-definition setting, and for every leaf
   handler that emits leaf text as a value. *)
C9_TrueFalseAreBooleans ==
    /\ (pc = "done" /\ handler \in TextLeaves \cup FlagLeaves
        /\ top.text \in {Str("true"), Str("false")})
       => EntryValue = Bool(top.text = Str("true"))
    /\ \A sv \in SettingPairs :
          sv[1] \in {Str("true"), Str("false")} => sv[2] = Bool(sv[1] = Str("true"))

(* C10 as stated: a boolean leaf whose value equals its implicit default
   false produces no output entry, and one with the value true produces
   exactly the entry [key, True]; for disabled, concurrent, block-downstream
   and block-upstream. *)
C10_DefaultSuppressed ==
    (pc = "done" /\ handler \in FlagLeaves)
    => /\ top.text = Str("false") => out \in {PyNone, List(<<>>)}
       /\ top.text = Str("true") =>
            (out.t = "list" /\ Len(out.items) = 1 /\ EntryValue = Bool(TRUE))

----------------------------------------------------------------------------
(* SpecSmall: the small container handlers handle_actions, handle_axes,
   handle_executionstrategy and handle_logrotator *)

SmallContainers == {"actions", "axes", "executionStrategy", "logRotator"}

\* the direct children a small container is called with
SmallItems(tag) ==
    CASE tag = "actions" -> {P("hudson.model.CauseAction", <<>>), E("action", "x")}
      [] tag = "axes" ->
            {P("hudson.matrix.LabelExpAxis",
               <<E("name", "label_exp"),
                 P("values", <<E("string", "linux"), E("string", "mac")>>)>>),
             P("hudson.matrix.LabelAxis",
               <<E("name", "label"), P("values", <<E("string", "node1")>>)>>),
             P("hudson.matrix.LabelAxis", <<P("name", <<>>), E("other", "x")>>),
             P("hudson.matrix.TextAxis",
               <<E("name", "arch"), P("values", <<E("string", "x86")>>)>>)}
      [] tag = "executionStrategy" ->
            {E("runSequentially", "true"), E("runSequentially", "false"),
             P("runSequentially", <<>>), E("touchStoneCombinationFilter", "x")}
      [] tag = "logRotator" ->
            {E("daysToKeep", "7"), E("numToKeep", "-1"),
             E("artifactDaysToKeep", "-1"), P("artifactNumToKeep", <<>>),
             E("numToKeep", "10"), E("keepForever", "true")}
      [] OTHER -> {}

InitSmall ==
    /\ handler \in SmallContainers
    /\ \E n \in 0..MaxItems : \E kids \in [1..n -> SmallItems(handler)] :
          top = P(handler, kids)
    /\ idx = 1 /\ out = PyNone /\ pc = "call" /\ exc = ""
    /\ NoMerge

\* handle_actions: nothing for an empty <actions/>, else NotImplementedError
handle_actions(node) ==
    IF Len(node.children) > 0 THEN Raise(NIE) ELSE Ok(PyNone)

\* the axis dict built from the children of a label axis of either kind
axis_of(type, child) ==
    LET ValueBody(values, value_element) == Ok(Append(values, value_element.text))
        ElementBody(axis, axis_element) ==
            CASE axis_element.tag = "name" -> Ok(Put(axis, "name", axis_element.text))
              [] axis_element.tag = "values" ->
                    Bind(Loop(ValueBody, <<>>, axis_element.children),
                         LAMBDA values : Ok(Put(axis, "values", List(values))))
              [] OTHER -> Ok(axis)
    IN Loop(ElementBody, Dict(<< <<"type", Str(type)>> >>), child.children)

handle_axes(node) ==
    LET Appended(axes, axis) == Ok(Append(axes, Dict(<< <<"axis", axis>> >>)))
        Body(axes, child) ==
            CASE child.tag = "hudson.matrix.LabelExpAxis" ->
                    Bind(axis_of("label-expression", child),
                         LAMBDA axis : Appended(axes, axis))
              [] child.tag = "hudson.matrix.LabelAxis" ->
                    Bind(axis_of("slave", child), LAMBDA axis : Appended(axes, axis))
              [] OTHER -> Raise(NIE)
    IN Bind(Loop(Body, <<>>, node.children),
            LAMBDA axes : Ok(List(<<List(<<Str("axes"), List(axes)>>)>>)))

handle_executionstrategy(node) ==
    LET Body(strategy, child) ==
            IF child.tag = "runSequentially"
            THEN Ok(Put(strategy, "run-sequentially", Bool(child.text = Str("true"))))
            ELSE Raise(NIE)
    IN Bind(Loop(Body, Dict(<<>>), node.children),
            LAMBDA strategy :
               Ok(List(<<List(<<Str("execution-strategy"), strategy>>)>>)))

handle_logrotator(node) ==
    LET Body(logrotate, child) ==
            IF child.tag \in {"daysToKeep", "numToKeep", "artifactDaysToKeep",
                              "artifactNumToKeep"}
            THEN Ok(Put(logrotate, child.tag, child.text))
            ELSE Raise(NIE)
    IN Bind(Loop(Body, Dict(<<>>), node.children),
            LAMBDA logrotate : Ok(List(<<List(<<Str("logrotate"), logrotate>>)>>)))

\* the handler the root walker finds for the tag: 'handle_' + tag.lower()
SmallHandler(tag, node) ==
    CASE tag = "actions" -> handle_actions(node)
      [] tag = "axes" -> handle_axes(node)
      [] tag = "executionStrategy" -> handle_executionstrategy(node)
      [] tag = "logRotator" -> handle_logrotator(node)

\* a small container handler returns its value or raises to its caller
CallSmall ==
    /\ pc = "call"
    /\ handler \in SmallContainers
    /\ LET Outcome(r) ==
              IF r.ok THEN out' = r.val /\ pc' = "done" /\ exc' = exc
              ELSE out' = out /\ pc' = "raised" /\ exc' = r.exc
       IN Outcome(SmallHandler(handler, top))
    /\ UNCHANGED <<handler, top, idx, heap, base, overlay, result, stack>>

NextSmall == CallSmall

SpecSmall == InitSmall /\ [][NextSmall]_vars

\* the direct children of the call that the handler has no branch for
SmallRecognises(tag, child) ==
    CASE tag = "axes" ->
            child.tag \in {"hudson.matrix.LabelExpAxis", "hudson.matrix.LabelAxis"}
      [] tag = "executionStrategy" -> child.tag = "runSequentially"
      [] tag = "logRotator" ->
            child.tag \in {"daysToKeep", "numToKeep", "artifactDaysToKeep",
                           "artifactNumToKeep"}
      [] OTHER -> FALSE

HasUnrecognisedChild ==
    \E i \in 1..Len(top.children) : ~SmallRecognises(handler, top.children[i])

(* C29 as stated: when handle_axes, handle_logrotator or
   handle_executionstrategy meets a direct child with a tag it does not
   recognise, and when handle_actions meets a non-empty <actions>, the
   handler does not raise to its caller: it returns (for the three entry
   handlers, its single entry, so the children it already translated are
   kept). *)
C29_SmallContainment ==
    (handler \in SmallContainers /\ pc # "call" /\ HasUnrecognisedChild)
    => /\ pc = "done"
       /\ handler # "actions" =>
             (out.t = "list" /\ Len(out.items) = 1)

----------------------------------------------------------------------------
(* SpecRaw: insert_rawxml(node, output) over bounded nodes and lists *)

MaxRawKids == 2

RawKids ==
    UNION {[1..n -> {Node("e", <<>>, PyNone, PyNone, <<>>),
                     Node("e", <<>>, Str("x"), Str("\n"), <<>>),
                     Node("f", << <<"class", "p.Q">> >>, PyNone, Str("x"), <<>>)}] :
              n \in 0..MaxRawKids}
RawNodes ==
    {Node(tg, at, tx, tl, ks) :
        tg \in {"p.Unknown"},
        at \in {<<>>, << <<"class", "p.Q">> >>,
                 << <<"class", "p.Q">>, <<"plugin", "q@1">> >>},
        tx \in {PyNone, Str(""), Str("x"), Str("\n  "), Str("a && b")},
        tl \in {PyNone, Str("\n"), Str("\n  "), Str("x")},
        ks \in RawKids}
RawOutputs ==
    {<<>>,
     <<Dict(<< <<"shell", Str("make")>> >>)>>,
     <<Dict(<< <<"shell", Str("make")>> >>),
       create_rawxml(Node("e", <<>>, PyNone, PyNone, <<>>))>>}

InitRaw ==
    /\ handler = "insert_rawxml"
    /\ top \in RawNodes
    /\ out \in RawOutputs
    /\ idx = 1 /\ pc = "loop" /\ exc = ""
    /\ NoMerge

InsertRawxml ==
    /\ handler = "insert_rawxml" /\ pc = "loop"
    /\ out' = insert_rawxml(top, out)
    /\ pc' = "done"
    /\ UNCHANGED <<handler, top, idx, exc, heap, base, overlay, result, stack>>

NextRaw == InsertRawxml

SpecRaw == InitRaw /\ [][NextRaw]_vars

\* the serialized text of a node and its descendants, own tag and attributes
\* included, without what follows the node in its parent
SerializedText(n) == Join(tostring([n EXCEPT !.tail = PyNone]))

(* C4 as stated: the text stored under ['raw']['xml'] is exactly the
   serialized text of the node, nothing removed and nothing added. *)
C4_Original ==
    (handler = "insert_rawxml" /\ pc = "done")
        => RawText(Last(out)) = SerializedText(top)

(* what create_rawxml does store: the serialized text of the node, followed
   by the node's tail text when that is not blank, followed by one newline *)
C4_RawText ==
    (handler = "insert_rawxml" /\ pc = "done")
        => RawText(Last(out)) =
             SerializedText(top)
             \o (IF Truthy(top.tail) /\ top.tail.s \notin Blank
                 THEN EscapeCdata(top.tail.s) ELSE "")
             \o "\n"

C4_Witness ==
    /\ handler = "insert_rawxml" /\ pc = "done"
    /\ top.tail = Str("\n  ") /\ Len(top.children) = 2 /\ top.attrib # <<>>
    /\ top.text = Str("\n  ")

(* C5: insert_rawxml always succeeds, appends exactly one Fallback Value at
   the end of the list, leaves the items already there unchanged and in
   place, and leaves the node unchanged. *)
C5_InsertAppendsOne ==
    [][(handler = "insert_rawxml" /\ pc = "loop" /\ pc' # "loop")
         => /\ pc' = "done" /\ exc' = ""
            /\ Len(out') = Len(out) + 1
            /\ SubSeq(out', 1, Len(out)) = out
            /\ IsRaw(Last(out'))
            /\ Last(out') = create_rawxml(top)
            /\ top' = top]_vars

C5_Witness ==
    /\ handler = "insert_rawxml" /\ pc = "done"
    /\ Len(out) = 3 /\ ~IsRaw(out[1]) /\ IsRaw(out[2]) /\ IsRaw(out[3])
    /\ out[2] # out[3]

----------------------------------------------------------------------------
(* SpecMerge: dict_merge(base, overlay) over bounded nested mappings, then a
   second merge that accumulates into the first one's result, as
   targetList[metric] = dict_merge(targetList[metric], {...}) does *)

MaxInt == 2

MergeInts == {PyInt(i) : i \in 1..MaxInt}
InnerMaps ==
    {Dict(<<>>)}
    \cup {Dict(<< <<k, v>> >>) : k \in {"x", "y"}, v \in MergeInts}
    \cup {Dict(<< <<"x", v>>, <<"y", w>> >>) : v \in MergeInts, w \in MergeInts}
OuterMaps ==
    {Dict(<<>>)}
    \cup {Dict(<< <<k, v>> >>) : k \in {"a", "b"}, v \in MergeInts \cup InnerMaps}
    \cup {Dict(<< <<"a", v>>, <<"b", w>> >>) :
              v \in MergeInts \cup InnerMaps, w \in MergeInts}

\* what a heap value holds, as a function from keys, whatever the key order
RECURSIVE Contents(_, _)
Contents(h, v) ==
    IF ~IsDictRef(v) THEN v
    ELSE [t |-> "map",
          f |-> [k \in {h[v.id][j][1] : j \in 1..Len(h[v.id])} |->
                    Contents(h, ObjGet(h[v.id], k))]]

NoWalk ==
    /\ top = PyNone /\ idx = 1 /\ out = <<>> /\ stack = <<>>

InitMerge ==
    /\ handler = "dict_merge" /\ pc = "loop" /\ exc = ""
    /\ NoWalk
    /\ \E a \in OuterMaps, b \in OuterMaps :
          LET ha == Alloc(<<>>, a)
              hb == Alloc(ha.h, b)
          IN heap = hb.h /\ base = ha.v /\ overlay = hb.v
    /\ result = PyNone

Merge ==
    /\ handler = "dict_merge" /\ pc = "loop"
    /\ LET m == dict_merge(heap, base, overlay)
       IN /\ heap' = m.h /\ result' = m.v /\ exc' = m.exc
          /\ pc' = IF m.exc = "" THEN "merged" ELSE "raised"
    /\ UNCHANGED <<handler, top, idx, out, base, overlay, stack>>

Accumulate ==
    /\ handler = "dict_merge" /\ pc = "merged"
    /\ LET m == dict_merge(heap, result, overlay)
       IN /\ heap' = m.h /\ result' = m.v /\ exc' = m.exc
          /\ pc' = IF m.exc = "" THEN "done" ELSE "raised"
    /\ base' = result
    /\ UNCHANGED <<handler, top, idx, out, overlay, stack>>

NextMerge == Merge \/ Accumulate

SpecMerge == InitMerge /\ [][NextMerge]_vars

\* the reference deep merge of two mappings given as functions from keys
RECURSIVE RefMerge(_, _)
RefMerge(p, q) ==
    [t |-> "map",
     f |-> [k \in (DOMAIN p.f) \cup (DOMAIN q.f) |->
              IF k \notin DOMAIN q.f THEN p.f[k]
              ELSE IF k \notin DOMAIN p.f THEN q.f[k]
              ELSE IF p.f[k].t = "map" /\ q.f[k].t = "map"
                   THEN RefMerge(p.f[k], q.f[k])
              ELSE q.f[k]]]

(* C6: dict_merge(base, overlay) equals the reference deep merge: keys only
   in base keep base's value, keys only in overlay take overlay's, a key in
   both is merged recursively when both values are mappings and is otherwise
   overlay's value. *)
C6_MergeCorrect ==
    (handler = "dict_merge" /\ pc \in {"merged", "done"})
        => /\ exc = ""
           /\ Contents(heap, result)
                = RefMerge(Contents(heap, base), Contents(heap, overlay))

\* merge({a: 1}, {a: {y: 2}}) = {a: {y: 2}}: overlay wins on type mismatch
C6_Witness ==
    /\ handler = "dict_merge" /\ pc = "merged"
    /\ Contents(heap, base) = [t |-> "map", f |-> [k \in {"a"} |-> PyInt(1)]]
    /\ Contents(heap, overlay) =
         [t |-> "map", f |-> [k \in {"a"} |->
             [t |-> "map", f |-> [j \in {"y"} |-> PyInt(2)]]]]
    /\ Contents(heap, result) = Contents(heap, overlay)

(* C7: a merge leaves every dict object that existed before the call, and so
   base and overlay at every depth, as it was. *)
C7_InputsUnchanged ==
    [][handler = "dict_merge"
         => \A id \in 1..Len(heap) : Len(heap') >= id /\ heap'[id] = heap[id]]_vars

\* the accumulating merge has run on a base and an overlay that share a
\* nested key: merge({a: {x: 1}}, {a: {y: 2}}) then merged again
C7_Witness ==
    /\ handler = "dict_merge" /\ pc = "done"
    /\ Contents(heap, overlay) =
         [t |-> "map", f |-> [k \in {"a"} |->
             [t |-> "map", f |-> [j \in {"y"} |-> PyInt(2)]]]]
    /\ Contents(heap, result) =
         [t |-> "map", f |-> [k \in {"a"} |->
             [t |-> "map", f |-> [j \in {"x", "y"} |->
                 IF j = "x" THEN PyInt(1) ELSE PyInt(2)]]]]


----------------------------------------------------------------------------
(* handle_scm *)

\* s.split(), on the strings of the model's alphabet
SplitWords(s) ==
    CASE s \in Blank -> <<>>
      [] s = "alice bob" -> <<Str("alice"), Str("bob")>>
      [] OTHER -> <<Str(s)>>

\* if child.text or len(list(child)) > 0
TextOrChildren(child) == Truthy(child.text) \/ Len(child.children) > 0

\* the 'userRemoteConfigs' branch
scm_user_remote_configs(git, child) ==
    LET Body(g, setting) ==
            CASE setting.tag \in {"url", "name", "refspec"} ->
                    Ok(Put(g, setting.tag, setting.text))
              [] setting.tag = "credentialsId" ->
                    Ok(Put(g, "credentials-id", setting.text))
              [] OTHER -> Raise(NIE)
    IN IF Len(child.children) # 1 THEN Raise(NIE)
       ELSE Loop(Body, git, child.children[1].children)

\* the 'branches' branch
scm_branches(git, child) ==
    IF child.children = <<>> \/ child.children[1].children = <<>>
    THEN Raise("IndexError")
    ELSE IF child.children[1].children[1].tag # "name" THEN Raise(NIE)
    ELSE Ok(Put(git, "branches",
                List(Flatten([i \in 1..Len(child.children) |->
                        [j \in 1..Len(child.children[i].children) |->
                            child.children[i].children[j].text]]))))

\* the 'browser' branch
scm_browser(git, child) ==
    LET GitBlit(g, item) ==
            CASE item.tag = "url" -> Ok(Put(g, "browser-url", item.text))
              [] item.tag = "projectName" -> Ok(Put(g, "project-name", item.text))
              [] OTHER -> Raise(NIE)
        GithubWeb(g, item) ==
            IF item.tag = "url" THEN Ok(Put(g, "browser-url", item.text))
            ELSE Raise(NIE)
    IN IF ~HasAttr(child, "class") THEN Raise("KeyError")
       ELSE CASE Attr(child, "class") = "hudson.plugins.git.browser.GitBlitRepositoryBrowser" ->
                    Loop(GitBlit, Put(git, "browser", Str("gitblit")), child.children)
              [] Attr(child, "class") = "hudson.plugins.git.browser.GithubWeb" ->
                    Loop(GithubWeb, Put(git, "browser", Str("githubweb")), child.children)
              [] OTHER ->
                    IF TextOrChildren(child) THEN Raise(NIE) ELSE Ok(git)

\* the 'extensions' branch; clean collects the two clean options
scm_extensions(git, child) ==
    LET Prefix == "hudson.plugins.git.extensions.impl."
        KeepClean(st, g) == Ok([git |-> g, clean |-> st.clean])
        Body(st, ext) ==
            CASE ext.tag = Prefix \o "RelativeTargetDirectory" ->
                    KeepClean(st, Put(st.git, "basedir", FindText(ext, "relativeTargetDir")))
              [] ext.tag = Prefix \o "CloneOption" ->
                    IF FindText(ext, "reference") = PyNone THEN Raise("TypeError")
                    ELSE KeepClean(st,
                            IF FindText(ext, "reference") # Str("")
                            THEN Put(IF FindText(ext, "shallow") = Str("true")
                                     THEN Put(st.git, "shallow-clone", Bool(TRUE))
                                     ELSE st.git,
                                     "reference-repo", FindText(ext, "reference"))
                            ELSE IF FindText(ext, "shallow") = Str("true")
                            THEN Put(st.git, "shallow-clone", Bool(TRUE))
                            ELSE st.git)
              [] ext.tag = Prefix \o "CleanBeforeCheckout" ->
                    Ok([git |-> st.git, clean |-> Put(st.clean, "before", Bool(TRUE))])
              [] ext.tag = Prefix \o "CleanCheckout" ->
                    Ok([git |-> st.git, clean |-> Put(st.clean, "after", Bool(TRUE))])
              [] ext.tag = Prefix \o "WipeWorkspace" ->
                    KeepClean(st, Put(st.git, "wipe-workspace", Bool(TRUE)))
              [] ext.tag = Prefix \o "PerBuildTag" ->
                    KeepClean(st, Put(st.git, "skip-tag", Bool(FALSE)))
              [] ext.tag = Prefix \o "LocalBranch" ->
                    KeepClean(st, Put(st.git, "local-branch", FindText(ext, "localBranch")))
              [] OTHER -> Raise(NIE)
    IN Bind(Loop(Body, [git |-> git, clean |-> Dict(<<>>)], child.children),
            LAMBDA st : Ok(IF Len(st.clean.kv) > 0 THEN Put(st.git, "clean", st.clean)
                           ELSE st.git))

\* one pass of "for child in top" of the git definition
scm_git_option(git, child) ==
    CASE child.tag = "configVersion" -> Ok(git)
      [] child.tag = "userRemoteConfigs" -> scm_user_remote_configs(git, child)
      [] child.tag = "gitTool" -> Ok(Put(git, "git-tool", child.text))
      [] child.tag = "excludedUsers" ->
            Ok(IF Truthy(child.text)
               THEN Put(git, "excluded-users", List(SplitWords(child.text.s)))
               ELSE git)
      [] child.tag = "buildChooser" ->
            IF ~HasAttr(child, "class") THEN Raise("KeyError")
            ELSE IF Attr(child, "class") = "hudson.plugins.git.util.DefaultBuildChooser"
            THEN Ok(git)
            ELSE Raise(NIE)
      [] child.tag \in {"disableSubmodules", "recursiveSubmodules"} ->
            IF child.text = Str("true") THEN Raise(NIE) ELSE Ok(git)
      [] child.tag = "authorOrCommitter" ->
            Ok(IF child.text = Str("true") THEN Put(git, "use-author", Bool(TRUE)) ELSE git)
      [] child.tag = "useShallowClone" ->
            Ok(IF child.text = Str("true") THEN Put(git, "shallow-clone", Bool(TRUE)) ELSE git)
      [] child.tag = "ignoreNotifyCommit" ->
            Ok(IF child.text = Str("true") THEN Put(git, "ignore-notify", Bool(TRUE)) ELSE git)
      [] child.tag = "wipeOutWorkspace" ->
            Ok(Put(git, "wipe-workspace", IsTrue(child)))
      [] child.tag = "skipTag" ->
            Ok(IF child.text # Str("true") THEN Put(git, "skip-tag", Bool(FALSE)) ELSE git)
      [] child.tag = "pruneBranches" ->
            Ok(IF child.text = Str("true") THEN Put(git, "prune", Bool(TRUE)) ELSE git)
      [] child.tag = "remotePoll" ->
            Ok(IF child.text = Str("true") THEN Put(git, "fastpoll", Bool(TRUE)) ELSE git)
      [] child.tag = "relativeTargetDir" ->
            Ok(IF Truthy(child.text) THEN Put(git, "basedir", child.text) ELSE git)
      [] child.tag \in {"reference", "gitConfigName", "gitConfigEmail", "scmName"} ->
            IF TextOrChildren(child) THEN Raise(NIE) ELSE Ok(git)
      [] child.tag = "branches" -> scm_branches(git, child)
      [] child.tag = "localBranch" -> Ok(Put(git, "local-branch", child.text))
      [] child.tag \in {"doGenerateSubmoduleConfigurations", "submoduleCfg"} ->
            IF Len(child.children) > 0 THEN Raise(NIE) ELSE Ok(git)
      [] child.tag = "browser" -> scm_browser(git, child)
      [] child.tag = "extensions" -> scm_extensions(git, child)
      [] OTHER -> Raise(NIE)

\* one default constant for both keys
scm_defaults_unified(git) ==
    IF HasKey(git, "wipe-workspace")
    THEN IF HasKey(git, "skip-tag") THEN git ELSE Put(git, "skip-tag", Bool(FALSE))
    ELSE IF HasKey(git, "skip-tag") THEN Put(git, "wipe-workspace", Bool(FALSE))
    ELSE Put(Put(git, "wipe-workspace", Bool(FALSE)), "skip-tag", Bool(FALSE))

\* if 'wipe-workspace' not in git: ... if 'skip-tag' not in git: ...
scm_defaults(git) ==
    IF HasKey(git, "wipe-workspace")
    THEN IF HasKey(git, "skip-tag") THEN git ELSE Put(git, "skip-tag", Bool(TRUE))
    ELSE IF HasKey(git, "skip-tag") THEN Put(git, "wipe-workspace", Bool(FALSE))
    ELSE Put(Put(git, "wipe-workspace", Bool(FALSE)), "skip-tag", Bool(TRUE))

\* the try block of handle_scm and its except clause
scm_git(node) ==
    LET Except(r) ==
            IF r.ok THEN Ok(<<Dict(<< <<"git", scm_defaults(r.val)>> >>)>>)
            ELSE IF r.exc = NIE THEN Ok(insert_rawxml(node, <<>>))
            ELSE r
    IN Except(Loop(scm_git_option, Dict(<<>>), node.children))

\* handle_scm(scm)[0][1][0], on the outcome of the call
scm_first_record(r) ==
    IF ~r.ok THEN r
    ELSE IF r.val = PyNone THEN Raise("TypeError")
    ELSE IF r.val.items[1].items[2].items = <<>> THEN Raise("IndexError")
    ELSE Ok(r.val.items[1].items[2].items[1])

ScmEntry(scm) == List(<<List(<<Str("scm"), List(scm)>>)>>)

RECURSIVE handle_scm(_)

\* the wrapper's definitions translated last to first
scm_multi_reversed(node) ==
    LET Body(scms, scm) ==
            Bind(scm_first_record(handle_scm(scm)),
                 LAMBDA record : Ok(<<record>> \o scms))
    IN IF node.children = <<>> THEN Raise("IndexError")
       ELSE Bind(Loop(Body, <<>>, node.children[1].children),
                 LAMBDA scms : Ok(ScmEntry(scms)))

\* the 'org.jenkinsci.plugins.multiplescms.MultiSCM' branch
scm_multi(node) ==
    LET Body(scms, scm) ==
            Bind(scm_first_record(handle_scm(scm)),
                 LAMBDA record : Ok(Append(scms, record)))
    IN IF node.children = <<>> THEN Raise("IndexError")
       ELSE Bind(Loop(Body, <<>>, node.children[1].children),
                 LAMBDA scms : Ok(ScmEntry(scms)))

\* the no-op type translated to an entry with no record
scm_null_empty(node) == Ok(ScmEntry(<<>>))

\* the 'hudson.scm.NullSCM' branch
scm_null(node) == Ok(PyNone)

handle_scm(node) ==
    IF HasAttr(node, "class") /\ Attr(node, "class") = "hudson.scm.NullSCM"
    THEN scm_null(node)
    ELSE IF HasAttr(node, "class")
            /\ Attr(node, "class") = "org.jenkinsci.plugins.multiplescms.MultiSCM"
    THEN scm_multi(node)
    ELSE IF node.tag # "hudson.plugins.git.GitSCM" /\ ~HasAttr(node, "class")
    THEN Raise("KeyError")
    ELSE IF node.tag # "hudson.plugins.git.GitSCM"
            /\ Attr(node, "class") # "hudson.plugins.git.GitSCM"
    THEN Raise(NIE)
    ELSE Bind(scm_git(node), LAMBDA scm : Ok(ScmEntry(scm)))


----------------------------------------------------------------------------
(* SpecScm: one call of handle_scm on a source-control node *)

MaxScms == 2

\* the children of a git definition
GitBodies ==
    {<<>>,
     <<E("configVersion", "2"),
       P("userRemoteConfigs",
         <<P("hudson.plugins.git.UserRemoteConfig",
             <<E("url", "git://example.org/a.git"), E("credentialsId", "key-1")>>)>>),
       P("branches", <<P("hudson.plugins.git.BranchSpec", <<E("name", "*/master")>>)>>),
       E("wipeOutWorkspace", "true")>>,
     <<P("extensions",
         <<P("hudson.plugins.git.extensions.impl.CleanBeforeCheckout", <<>>),
           P("hudson.plugins.git.extensions.impl.LocalBranch",
             <<E("localBranch", "master")>>)>>),
       E("skipTag", "false"),
       E("excludedUsers", "alice bob")>>,
     <<C("browser", "hudson.plugins.git.browser.GithubWeb",
         <<E("url", "http://example.org/a")>>),
       C("buildChooser", "hudson.plugins.git.util.DefaultBuildChooser", <<>>),
       E("skipTag", "true")>>,
     <<E("gitTool", "Default"), E("sparseCheckout", "true")>>,
     <<E("disableSubmodules", "true")>>,
     <<P("buildChooser", <<>>)>>,
     <<E("wipeOutWorkspace", "false"),
       P("extensions",
         <<P("hudson.plugins.git.extensions.impl.PerBuildTag", <<>>),
           P("hudson.plugins.git.extensions.impl.WipeWorkspace", <<>>),
           P("hudson.plugins.git.extensions.impl.CleanCheckout", <<>>),
           P("hudson.plugins.git.extensions.impl.CleanBeforeCheckout", <<>>)>>)>>,
     <<P("extensions",
         <<P("hudson.plugins.git.extensions.impl.CloneOption",
             <<E("shallow", "true"), E("reference", "/cache/a.git")>>)>>)>>,
     <<P("skipTag", <<>>),
       P("extensions",
         <<P("hudson.plugins.git.extensions.impl.CloneOption",
             <<E("shallow", "false"), P("reference", <<>>)>>),
           P("hudson.plugins.git.extensions.impl.RelativeTargetDirectory",
             <<E("relativeTargetDir", "src")>>)>>)>>,
     <<P("extensions",
         <<P("hudson.plugins.git.extensions.impl.CloneOption",
             <<E("shallow", "true")>>)>>)>>,
     <<P("extensions",
         <<P("hudson.plugins.git.extensions.impl.CleanCheckout", <<>>),
           P("hudson.plugins.git.extensions.impl.SubmoduleOption", <<>>)>>)>>,
     <<P("extensions", <<>>), E("skipTag", "true")>>}

\* the definitions a multi-SCM wrapper may hold
ScmDefinitions ==
    {P("hudson.plugins.git.GitSCM", body) : body \in GitBodies}
        \cup {P("hudson.scm.SubversionSCM", <<>>),
              C("hudson.scm.SCM", "hudson.scm.SubversionSCM", <<>>),
              C("hudson.scm.SCM", "hudson.scm.NullSCM", <<>>)}

IsGitDefinition(scm) == scm.tag = "hudson.plugins.git.GitSCM" /\ ~HasAttr(scm, "class")

ScmNodes ==
    {C("scm", class, body) :
        class \in {"hudson.plugins.git.GitSCM", "hudson.scm.NullSCM",
                   "hudson.scm.SubversionSCM"},
        body \in GitBodies}
    \cup {P("scm", body) : body \in GitBodies}
    \cup {C("scm", "org.jenkinsci.plugins.multiplescms.MultiSCM", <<>>)}
    \cup UNION {{C("scm", "org.jenkinsci.plugins.multiplescms.MultiSCM",
                   <<P("scms", defs)>>) : defs \in [1..n -> ScmDefinitions]} :
                n \in 0..MaxScms}

InitScm ==
    /\ handler = "scm"
    /\ top \in ScmNodes
    /\ idx = 1 /\ out = PyNone /\ pc = "call" /\ exc = ""
    /\ NoMerge

\* handle_scm returns or raises
CallScm ==
    /\ pc = "call"
    /\ handler = "scm"
    /\ LET Outcome(r) ==
              IF r.ok THEN out' = r.val /\ pc' = "done" /\ exc' = exc
              ELSE out' = out /\ pc' = "raised" /\ exc' = r.exc
       IN Outcome(handle_scm(top))
    /\ UNCHANGED <<handler, top, idx, heap, base, overlay, result, stack>>

NextScm == CallScm

SpecScm == InitScm /\ [][NextScm]_vars

IsMultiScm(node) ==
    HasAttr(node, "class")
    /\ Attr(node, "class") = "org.jenkinsci.plugins.multiplescms.MultiSCM"

IsNullScm(node) == HasAttr(node, "class") /\ Attr(node, "class") = "hudson.scm.NullSCM"

\* the wrapper holds a list of git definitions, each of which handle_scm
\* translates when it is given alone
WrapsGitDefinitions(node) ==
    /\ IsMultiScm(node)
    /\ node.children # <<>>
    /\ \A i \in 1..Len(node.children[1].children) :
          /\ IsGitDefinition(node.children[1].children[i])
          /\ handle_scm(node.children[1].children[i]).ok

\* the single record of the entry [['scm', [record]]]
SingleRecord(entry) == entry.items[1].items[2].items[1]

(* C11: handle_scm on a multi-SCM wrapper that holds k git definitions
   returns exactly [['scm', L]], where L has k items in document order and
   L[i] is the single record handle_scm makes of the i-th definition when it
   is translated on its own. *)
C11_MultiScmIsPerDefinition ==
    (pc # "call" /\ WrapsGitDefinitions(top))
    => /\ pc = "done"
       /\ out = ScmEntry([i \in 1..Len(top.children[1].children) |->
                  SingleRecord(handle_scm(top.children[1].children[i]).val)])

\* two different git definitions were translated, one typed and one raw
C11_Witness ==
    /\ pc = "done" /\ WrapsGitDefinitions(top)
    /\ Len(top.children[1].children) = 2
    /\ Len(out.items[1].items[2].items) = 2
    /\ ~IsRaw(out.items[1].items[2].items[1])
    /\ IsRaw(out.items[1].items[2].items[2])

(* C12: handle_scm on a node whose class is the no-op SCM type returns None,
   not an 'scm' entry, whatever children the node has. *)
C12_NullScmIsNone ==
    (pc # "call" /\ IsNullScm(top)) => (pc = "done" /\ out = PyNone)

\* the no-op node had children that a git definition would reject
C12_Witness ==
    /\ pc = "done" /\ IsNullScm(top) /\ out = PyNone
    /\ \E j \in 1..Len(top.children) : top.children[j].tag = "sparseCheckout"

(* C13 as stated: handle_scm on a single source-control node whose type is
   not git, not the no-op type and not the multi-SCM wrapper, a node with no
   class attribute included, returns [['scm', [Fallback Value of the node]]]
   and raises nothing to its caller. *)
C13_UnknownScmFallsBack ==
    (/\ pc # "call"
     /\ ~IsNullScm(top) /\ ~IsMultiScm(top)
     /\ top.tag # "hudson.plugins.git.GitSCM"
     /\ ~(HasAttr(top, "class") /\ Attr(top, "class") = "hudson.plugins.git.GitSCM"))
    => (pc = "done" /\ out = ScmEntry(<<create_rawxml(top)>>))

\* a node that handle_scm takes for a git definition
IsGitNode(node) ==
    /\ ~IsNullScm(node) /\ ~IsMultiScm(node)
    /\ \/ node.tag = "hudson.plugins.git.GitSCM"
       \/ HasAttr(node, "class") /\ Attr(node, "class") = "hudson.plugins.git.GitSCM"

\* the extension nodes of the definition's <extensions> containers
GitExtensions(node) ==
    Flatten([j \in 1..Len(node.children) |->
        IF node.children[j].tag = "extensions" THEN node.children[j].children ELSE <<>>])

HasGitExtension(node, name) ==
    \E j \in 1..Len(GitExtensions(node)) :
        GitExtensions(node)[j].tag = "hudson.plugins.git.extensions.impl." \o name

\* the source asks for tagging: a skipTag child that is not 'true', or a
\* PerBuildTag extension
TagsBuilds(node) ==
    \/ \E j \in 1..Len(node.children) :
          node.children[j].tag = "skipTag" /\ node.children[j].text # Str("true")
    \/ HasGitExtension(node, "PerBuildTag")

GitRecordDefaults(node, record) ==
    /\ HasKey(record, "git")
    /\ HasKey(Get(record, "git"), "wipe-workspace")
    /\ HasKey(Get(record, "git"), "skip-tag")
    /\ Get(Get(record, "git"), "skip-tag") = Bool(~TagsBuilds(node))
    /\ (~HasChild(node, "wipeOutWorkspace") /\ ~HasGitExtension(node, "WipeWorkspace"))
          => Get(Get(record, "git"), "wipe-workspace") = Bool(FALSE)

\* the records of the entry [['scm', records]]
ScmRecords(entry) == entry.items[1].items[2].items

(* C27: every typed git record that handle_scm returns, for a single
   definition or inside a multi-SCM wrapper, has both 'wipe-workspace' and
   'skip-tag'; 'skip-tag' is False iff the source has a skipTag child whose
   text is not 'true' or a PerBuildTag extension, and True otherwise;
   'wipe-workspace' is False when the source has neither a wipeOutWorkspace
   child nor a WipeWorkspace extension. *)
C27_BothDefaultsKept ==
    pc = "done"
    => /\ (IsGitNode(top) /\ ~IsRaw(ScmRecords(out)[1]))
             => GitRecordDefaults(top, ScmRecords(out)[1])
       /\ IsMultiScm(top)
             => \A i \in 1..Len(ScmRecords(out)) :
                   (/\ IsGitNode(top.children[1].children[i])
                    /\ ~IsRaw(ScmRecords(out)[i]))
                   => GitRecordDefaults(top.children[1].children[i], ScmRecords(out)[i])

\* a definition with extensions but no skipTag, wipeOutWorkspace, PerBuildTag
\* or WipeWorkspace came out with the two different defaults
C27_Witness ==
    /\ pc = "done" /\ IsGitNode(top) /\ ~IsRaw(ScmRecords(out)[1])
    /\ HasChild(top, "extensions")
    /\ ~HasChild(top, "skipTag") /\ ~HasChild(top, "wipeOutWorkspace")
    /\ ~TagsBuilds(top) /\ ~HasGitExtension(top, "WipeWorkspace")
    /\ Get(Get(ScmRecords(out)[1], "git"), "wipe-workspace") = Bool(FALSE)
    /\ Get(Get(ScmRecords(out)[1], "git"), "skip-tag") = Bool(TRUE)

\* what the definition contributes to the list of a wrapper, as the claim
\* has it: nothing for a no-op SCM, the record handle_scm makes of a git
\* definition, the Fallback Value of any other definition
IsolatedRecords(definition) ==
    IF IsNullScm(definition) THEN <<>>
    ELSE IF IsGitNode(definition) /\ handle_scm(definition).ok
    THEN <<ScmRecords(handle_scm(definition).val)[1]>>
    ELSE <<create_rawxml(definition)>>

\* every git definition of the wrapper is translated or falls back
GitDefinitionsReturn(node) ==
    /\ IsMultiScm(node) /\ node.children # <<>>
    /\ \A i \in 1..Len(node.children[1].children) :
          IsGitNode(node.children[1].children[i])
          => handle_scm(node.children[1].children[i]).ok

(* C28 as stated: when a definition inside a multi-SCM wrapper is not
   translatable (a non-git type, a no-op SCM, a git definition with an
   unsupported option), handle_scm still returns [['scm', L]] and raises
   nothing; L has a Fallback Value (nothing, for a no-op SCM) at that
   definition's position and the normal git record of every other
   definition. *)
C28_WrapperIsolates ==
    (pc # "call" /\ GitDefinitionsReturn(top))
    => /\ pc = "done"
       /\ out = ScmEntry(Flatten([i \in 1..Len(top.children[1].children) |->
                    IsolatedRecords(top.children[1].children[i])]))

\* some CloneOption extension of the definition has this child with a text
\* that satisfies Test
CloneOptionWith(node, tag, Test(_)) ==
    \E j \in 1..Len(GitExtensions(node)) :
        /\ GitExtensions(node)[j].tag = "hudson.plugins.git.extensions.impl.CloneOption"
        /\ HasChild(GitExtensions(node)[j], tag)
        /\ Test(Find(GitExtensions(node)[j], tag).text)

KnownGitExtensions ==
    {"hudson.plugins.git.extensions.impl." \o name :
        name \in {"RelativeTargetDirectory", "CloneOption", "CleanBeforeCheckout",
                  "CleanCheckout", "WipeWorkspace", "PerBuildTag", "LocalBranch"}}

(* C30 as stated: for a git definition with an <extensions> container
   handle_scm never raises; an extension with an unknown tag makes the whole
   scm exactly one Fallback Value; otherwise 'reference-repo' is set iff a
   CloneOption has a non-empty reference (a CloneOption without a reference
   child counts as an empty reference), 'shallow-clone' is set by the
   extensions only when a CloneOption has shallow 'true', and one 'clean'
   mapping is emitted iff CleanBeforeCheckout or CleanCheckout is present,
   with 'before' and 'after' for the ones that are. *)
C30_GitExtensions ==
    (pc # "call" /\ IsGitNode(top) /\ HasChild(top, "extensions"))
    => /\ pc = "done"
       /\ (\E j \in 1..Len(GitExtensions(top)) :
              GitExtensions(top)[j].tag \notin KnownGitExtensions)
             => out = ScmEntry(<<create_rawxml(top)>>)
       /\ ~IsRaw(ScmRecords(out)[1])
             => /\ HasKey(Get(ScmRecords(out)[1], "git"), "reference-repo")
                      = CloneOptionWith(top, "reference", Truthy)
                /\ HasKey(Get(ScmRecords(out)[1], "git"), "shallow-clone")
                      = (\/ CloneOptionWith(top, "shallow", LAMBDA t : t = Str("true"))
                         \/ \E j \in 1..Len(top.children) :
                               /\ top.children[j].tag = "useShallowClone"
                               /\ top.children[j].text = Str("true"))
                /\ HasKey(Get(ScmRecords(out)[1], "git"), "clean")
                      = (\/ HasGitExtension(top, "CleanBeforeCheckout")
                         \/ HasGitExtension(top, "CleanCheckout"))
                /\ HasKey(Get(ScmRecords(out)[1], "git"), "clean")
                      => /\ HasKey(Get(Get(ScmRecords(out)[1], "git"), "clean"), "before")
                               = HasGitExtension(top, "CleanBeforeCheckout")
                         /\ HasKey(Get(Get(ScmRecords(out)[1], "git"), "clean"), "after")
                               = HasGitExtension(top, "CleanCheckout")

(***************************************************************************)
(* SpecWalk: the two recursive paths, call by call.  The tree is a set of  *)
(* objects in `heap`: an element holds its tag, the identity of its        *)
(* attribute dict, its text and tail, and the identities of its children.  *)
(* `stack` holds one frame per call of handle_builder or handle_scm that   *)
(* has not returned yet.                                                   *)
(***************************************************************************)

ConditionalTag ==
    "org.jenkinsci.plugins.conditionalbuildstep.singlestep.SingleConditionalBuilder"

\* the element objects of the tree n, the root first, appended to h
RECURSIVE StoreNode(_, _)
StoreNode(h, n) ==
    LET id == Len(h) + 1
        Body(acc, child) ==
            Bind(Ok(StoreNode(acc.h, child)),
                 LAMBDA s : Ok([h |-> s.h, ids |-> Append(acc.ids, s.id)]))
        Link(acc) ==
            Ok([h |-> [acc.h EXCEPT ![id].children = acc.ids], id |-> id])
    IN Bind(Loop(Body,
                 [h |-> h \o <<[kind |-> "element", tag |-> n.tag, attrib |-> id + 1,
                                text |-> n.text, tail |-> n.tail, children |-> <<>>],
                               [kind |-> "attrib", kv |-> n.attrib]>>,
                  ids |-> <<>>],
                 n.children),
            Link).val

\* the tree that the element `id` is the root of
RECURSIVE LoadNode(_, _)
LoadNode(h, id) ==
    Node(h[id].tag, h[h[id].attrib].kv, h[id].text, h[id].tail,
         [i \in 1..Len(h[id].children) |-> LoadNode(h, h[id].children[i])])

\* Element.copy() that keeps the attribute dict of the original
element_alias(h, id) == [h |-> Append(h, h[id]), id |-> Len(h) + 1]

\* item.copy(): a new element with its own attribute dict and the same
\* child objects
element_copy(h, id) ==
    [h |-> h \o <<[h[id] EXCEPT !.attrib = Len(h) + 2],
                  [kind |-> "attrib", kv |-> h[h[id].attrib].kv]>>,
     id |-> Len(h) + 1]

\* builder.tag = builder.attrib.pop('class'), on the objects
pop_class(h, id) ==
    [h EXCEPT ![id].tag = Attr(LoadNode(h, id), "class"),
              ![h[id].attrib].kv = SelectSeq(h[h[id].attrib].kv,
                                             LAMBDA a : a[1] # "class")]

Frame(fn, node, of) ==
    [fn |-> fn, node |-> node, of |-> of, at |-> "call", idx |-> 1,
     acc |-> <<>>, builder |-> node]

Callers == SubSeq(stack, 1, Len(stack) - 1)

\* a loop that goes over the node itself
LoopItemsSelf(f) == <<f.node>>

\* the elements the loop of the call f goes over: the children of the
\* builder, the definitions in top[0]
LoopItems(f) ==
    IF f.fn = "handle_builder" THEN heap[f.node].children
    ELSE heap[heap[f.node].children[1]].children

Recurses(f) ==
    IF f.fn = "handle_builder" THEN heap[f.node].tag = ConditionalTag
    ELSE IsMultiScm(LoadNode(heap, f.node))

\* the innermost call goes on at the frame f
Goes(h, f) ==
    /\ heap' = h
    /\ stack' = Append(Callers, f)
    /\ UNCHANGED <<out, pc, exc>>

\* the innermost call raises e: its frame stays until the exception has been
\* looked at
Raises(e) ==
    /\ pc' = "raising" /\ exc' = e
    /\ UNCHANGED <<out, heap, stack>>

\* the innermost call returns v to the call that made it; an exception it
\* caught is no longer pending
Returns(v) ==
    /\ heap' = heap
    /\ IF Callers = <<>>
       THEN stack' = <<>> /\ out' = v /\ pc' = "done" /\ exc' = ""
       ELSE LET caller == Last(Callers) IN
            IF caller.fn = "handle_builder"
            THEN /\ stack' = [Callers EXCEPT ![Len(Callers)] =
                        [caller EXCEPT
                            !.acc = Put(caller.acc, "steps", List(<<v>>)),
                            !.idx = caller.idx + 1, !.at = "loop"]]
                 /\ pc' = "walk" /\ out' = out /\ exc' = ""
            ELSE IF scm_first_record(Ok(v)).ok
            THEN /\ stack' = [Callers EXCEPT ![Len(Callers)] =
                        [caller EXCEPT
                            !.acc = Append(caller.acc, scm_first_record(Ok(v)).val),
                            !.idx = caller.idx + 1, !.at = "loop"]]
                 /\ pc' = "walk" /\ out' = out /\ exc' = ""
            ELSE /\ stack' = Callers
                 /\ pc' = "raising" /\ exc' = scm_first_record(Ok(v)).exc
                 /\ out' = out

Outcome(r) == IF r.ok THEN Returns(r.val) ELSE Raises(r.exc)

RecursiveBuilders ==
    {P(ConditionalTag,
       <<C("condition", "org.jenkins_ci.plugins.run_condition.core.AlwaysRun", <<>>),
         [C("buildStep", step.tag, step.children) EXCEPT !.tail = Str("\n  ")],
         C("runner", runner, <<>>)>>) :
        step \in Items("builders"),
        runner \in {"org.jenkins_ci.plugins.run_condition.BuildStepRunner$Fail",
                    "org.jenkins_ci.plugins.run_condition.BuildStepRunner$Unstable"}}
    \cup {P(ConditionalTag, <<P("buildStep", <<>>)>>),
          P(ConditionalTag,
            <<C("buildStep", ConditionalTag,
                <<C("buildStep", ConditionalTag,
                    <<C("buildStep", "hudson.tasks.Shell", <<>>)>>)>>)>>)}

RecursiveScms ==
    {C("scm", "org.jenkinsci.plugins.multiplescms.MultiSCM",
       <<P("scms", <<C("hudson.scm.SCM", "org.jenkinsci.plugins.multiplescms.MultiSCM",
                       <<P("scms", defs)>>),
                     P("hudson.plugins.git.GitSCM", <<>>)>>)>>) :
        defs \in UNION {[1..n -> ScmDefinitions] : n \in 0..1}}
    \cup {C("scm", "org.jenkinsci.plugins.multiplescms.MultiSCM",
            <<P("scms", <<C("hudson.scm.SCM", "hudson.scm.NullSCM", <<>>)>>)>>)}

WalkTrees(fn) ==
    IF fn = "handle_builder" THEN Items("builders") \cup RecursiveBuilders
    ELSE ScmNodes \cup RecursiveScms

\* the nodes that a call on n, or a call made during it, can be given
RECURSIVE BuilderCalls(_)
BuilderCalls(n) ==
    {n} \cup
    IF n.tag # ConditionalTag THEN {}
    ELSE UNION {BuilderCalls(promote_class(n.children[i])) :
                   i \in {j \in 1..Len(n.children) :
                             /\ n.children[j].tag = "buildStep"
                             /\ HasAttr(n.children[j], "class")}}

RECURSIVE ScmCalls(_)
ScmCalls(n) ==
    {n} \cup
    IF ~IsMultiScm(n) \/ n.children = <<>> THEN {}
    ELSE UNION {ScmCalls(n.children[1].children[i]) :
                   i \in 1..Len(n.children[1].children)}

\* handle_builder, create_rawxml and handle_scm depend on nothing but the
\* node they are given: their values on the nodes of the walks, worked out once
handle_builder_of ==
    [n \in UNION {BuilderCalls(t) : t \in WalkTrees("handle_builder")} |->
        handle_builder(n)]

create_rawxml_of ==
    [n \in UNION {BuilderCalls(t) : t \in WalkTrees("handle_builder")} |->
        create_rawxml(n)]

handle_scm_of ==
    [n \in UNION {ScmCalls(t) : t \in WalkTrees("handle_scm")} |-> handle_scm(n)]

InitWalk ==
    /\ handler \in {"handle_builder", "handle_scm"}
    /\ top \in WalkTrees(handler)
    /\ heap = StoreNode(<<>>, top).h
    /\ stack = <<Frame(handler, 1, 1)>>
    /\ pc = "walk" /\ exc = "" /\ out = PyNone /\ idx = 1
    /\ base = PyNone /\ overlay = PyNone /\ result = PyNone

\* a call on a node that is neither a conditional builder nor a multi-SCM
\* wrapper makes no further call of the two functions
WalkLeaf ==
    /\ pc = "walk" /\ stack # <<>>
    /\ Last(stack).at = "call" /\ ~Recurses(Last(stack))
    /\ Outcome(IF Last(stack).fn = "handle_builder"
               THEN handle_builder_of[LoadNode(heap, Last(stack).node)]
               ELSE handle_scm_of[LoadNode(heap, Last(stack).node)])
    /\ UNCHANGED <<handler, top, idx, base, overlay, result>>

\* conditional = OrderedDict() / scms = [], and the loop begins; top[0] of a
\* wrapper without children raises
WalkEnter ==
    /\ pc = "walk" /\ stack # <<>>
    /\ Last(stack).at = "call" /\ Recurses(Last(stack))
    /\ IF Last(stack).fn = "handle_builder"
       THEN Goes(heap, [Last(stack) EXCEPT !.at = "loop", !.acc = Dict(<<>>)])
       ELSE IF heap[Last(stack).node].children = <<>>
       THEN Raises("IndexError")
       ELSE Goes(heap, [Last(stack) EXCEPT !.at = "loop", !.acc = <<>>])
    /\ UNCHANGED <<handler, top, idx, base, overlay, result>>

\* an item of the conditional builder that is not the nested step
WalkSetting ==
    /\ pc = "walk" /\ stack # <<>>
    /\ Last(stack).fn = "handle_builder" /\ Last(stack).at = "loop"
    /\ Last(stack).idx <= Len(LoopItems(Last(stack)))
    /\ heap[LoopItems(Last(stack))[Last(stack).idx]].tag # "buildStep"
    /\ Either(conditional_setting(Last(stack).acc,
                  LoadNode(heap, LoopItems(Last(stack))[Last(stack).idx])),
              LAMBDA c : Goes(heap, [Last(stack) EXCEPT !.acc = c, !.idx = @ + 1]),
              Raises)
    /\ UNCHANGED <<handler, top, idx, base, overlay, result>>

\* builder = item.copy()
WalkCopy ==
    /\ pc = "walk" /\ stack # <<>>
    /\ Last(stack).fn = "handle_builder" /\ Last(stack).at = "loop"
    /\ Last(stack).idx <= Len(LoopItems(Last(stack)))
    /\ heap[LoopItems(Last(stack))[Last(stack).idx]].tag = "buildStep"
    /\ Bind(Ok(element_copy(heap, LoopItems(Last(stack))[Last(stack).idx])),
            LAMBDA made : Goes(made.h, [Last(stack) EXCEPT !.at = "copied",
                                                          !.builder = made.id]))
    /\ UNCHANGED <<handler, top, idx, base, overlay, result>>

\* builder.tag = builder.attrib.pop('class')
WalkPromote ==
    /\ pc = "walk" /\ stack # <<>>
    /\ Last(stack).at = "copied"
    /\ IF ~HasAttr(LoadNode(heap, Last(stack).builder), "class")
       THEN Raises("KeyError")
       ELSE Goes(pop_class(heap, Last(stack).builder),
                 [Last(stack) EXCEPT !.at = "promoted"])
    /\ UNCHANGED <<handler, top, idx, base, overlay, result>>

\* handle_builder(builder) on the promoted copy, handle_scm(scm) on the next
\* definition
WalkCall ==
    /\ pc = "walk" /\ stack # <<>>
    /\ \/ /\ Last(stack).fn = "handle_builder" /\ Last(stack).at = "promoted"
          /\ stack' = Append(Append(Callers, [Last(stack) EXCEPT !.at = "called"]),
                             Frame("handle_builder", Last(stack).builder,
                                   LoopItems(Last(stack))[Last(stack).idx]))
       \/ /\ Last(stack).fn = "handle_scm" /\ Last(stack).at = "loop"
          /\ Last(stack).idx <= Len(LoopItems(Last(stack)))
          /\ stack' = Append(Append(Callers, [Last(stack) EXCEPT !.at = "called"]),
                             Frame("handle_scm",
                                   LoopItems(Last(stack))[Last(stack).idx],
                                   LoopItems(Last(stack))[Last(stack).idx]))
    /\ UNCHANGED <<handler, top, idx, out, pc, exc, heap, base, overlay, result>>

\* the loop is over: return {'conditional-step': conditional} or
\* return [['scm', scms]]
WalkReturn ==
    /\ pc = "walk" /\ stack # <<>>
    /\ Last(stack).at = "loop"
    /\ Last(stack).idx > Len(LoopItems(Last(stack)))
    /\ Returns(IF Last(stack).fn = "handle_builder"
               THEN Dict(<< <<"conditional-step", Last(stack).acc>> >>)
               ELSE ScmEntry(Last(stack).acc))
    /\ UNCHANGED <<handler, top, idx, base, overlay, result>>

\* an exception in the innermost call: handle_builder catches
\* NotImplementedError and returns create_rawxml(builder); every other
\* exception, and every exception in handle_scm's multi-SCM loop, ends the call
WalkUnwind ==
    /\ pc = "raising"
    /\ IF stack = <<>>
       THEN pc' = "raised" /\ UNCHANGED <<out, exc, heap, stack>>
       ELSE IF Last(stack).fn = "handle_builder" /\ exc = NIE
       THEN Returns(create_rawxml_of[LoadNode(heap, Last(stack).builder)])
       ELSE stack' = Callers /\ UNCHANGED <<out, pc, exc, heap>>
    /\ UNCHANGED <<handler, top, idx, base, overlay, result>>

NextWalk ==
    \/ WalkLeaf \/ WalkEnter \/ WalkSetting \/ WalkCopy \/ WalkPromote
    \/ WalkCall \/ WalkReturn \/ WalkUnwind

SpecWalk == InitWalk /\ [][NextWalk]_vars

\* a call that can take a step takes it
SpecWalkFair == SpecWalk /\ WF_vars(NextWalk)

\* the objects of the caller's tree as they were before the call
OriginalObjects == StoreNode(<<>>, top).h

\* the objects made during the call
MadeObjects == (Len(OriginalObjects) + 1)..Len(heap)

(* C18: the source tree is read-only.  During and after a handler call, the
   conditional builder's promotion of a nested step included, every object
   of the caller's tree has the tag, attribute map, text, tail and children
   it had before the call: the tag rewrite and the removal of 'class' reach
   only the copy. *)
C18_SourceTreeReadOnly ==
    /\ SubSeq(heap, 1, Len(OriginalObjects)) = OriginalObjects
    /\ LoadNode(heap, 1) = top

\* a call that is over promoted a copy of a nested step: the copy carries the
\* class as its tag and has lost the attribute, the step it was copied from
\* is still a buildStep with its class
C18_Witness ==
    /\ handler = "handle_builder" /\ pc = "done"
    /\ \E made \in MadeObjects, item \in 1..Len(OriginalObjects) :
          /\ heap[made].kind = "element" /\ heap[item].kind = "element"
          /\ heap[item].tag = "buildStep"
          /\ HasAttr(LoadNode(heap, item), "class")
          /\ heap[made].tag = Attr(LoadNode(heap, item), "class")
          /\ ~HasAttr(LoadNode(heap, made), "class")
          /\ heap[made].children = heap[item].children

RECURSIVE StrictDescendants(_, _)
StrictDescendants(h, id) ==
    UNION {{h[id].children[i]} \cup StrictDescendants(h, h[id].children[i]) :
              i \in 1..Len(h[id].children)}

RECURSIVE Depth(_)
Depth(n) ==
    IF n.children = <<>> THEN 1
    ELSE 1 + (CHOOSE d \in {Depth(n.children[i]) : i \in 1..Len(n.children)} :
                 \A i \in 1..Len(n.children) : Depth(n.children[i]) <= d)

\* every call in progress but the outermost is about a strict descendant of
\* the node its caller was given, and was given that descendant or the
\* promoted copy of it; the calls in progress are no more than the tree is deep
DescendsOnly ==
    /\ Len(stack) <= Depth(top)
    /\ \A j \in 2..Len(stack) :
          /\ stack[j].of \in StrictDescendants(heap, stack[j - 1].node)
          /\ \/ stack[j].node = stack[j].of
             \/ /\ HasAttr(LoadNode(heap, stack[j].of), "class")
                /\ LoadNode(heap, stack[j].node)
                       = promote_class(LoadNode(heap, stack[j].of))

(* C20: for every finite source tree a handler call terminates, with a value
   or an exception; the recursive calls of handle_scm (multi-SCM wrapper) and
   of handle_builder (conditional builder) are made on a strict descendant,
   or a copy of one, of the node the calling invocation was given, so the
   depth of recursion never exceeds the depth of the tree. *)
C20_TerminatesByDescent ==
    []DescendsOnly /\ <>(pc \in {"done", "raised"})

\* a conditional builder nested in a conditional builder was translated: the
\* recursion went three calls deep and returned
C20_Witness ==
    /\ handler = "handle_builder" /\ pc = "done" /\ stack = <<>>
    /\ Depth(top) >= 3
    /\ HasKey(out, "conditional-step")
    /\ HasKey(Get(out, "conditional-step"), "steps")
    /\ HasKey(Get(Get(out, "conditional-step"), "steps").items[1], "conditional-step")
    /\ HasKey(Get(Get(Get(out, "conditional-step"), "steps").items[1],
                  "conditional-step"), "steps")

=============================================================================
